---- MODULE Spec2Model ----
(***************************************************************************)
(* Model of the SEI client's PDF generation workflow and batch             *)
(* orchestrator (src/src/sei_client/pdf.py).                               *)
(*                                                                         *)
(* One "frame" is one invocation of baixar_pdf_processo: its local         *)
(* variables, its position in the workflow, and ghost records of what it   *)
(* did (requests issued, files written, delays slept).  The portal is the  *)
(* environment: every fetch, parse and download step draws its outcome     *)
(* from the outcomes the code distinguishes.                               *)
(***************************************************************************)
EXTENDS Integers, Sequences, FiniteSets, TLC

VARIABLES
    chamada,     \* entry point in use: "unico" (baixar_pdf_processo) or "lote"
    processos,   \* the input list of Processo records
    opts,        \* PDFDownloadOptions: paralelo, workers, tentativas, limite_processos
    settings,    \* Settings: save_debug_html
    session,     \* the session argument given by the caller (None or Some(id))
    atraso_arg,  \* the atraso_retry argument of baixar_pdf_processo
    lote,        \* state of baixar_pdfs_em_lote: pc, processos_alvo, resultados, ...
    frames,      \* one frame per invocation of baixar_pdf_processo
    sessoes,     \* every requests.Session that exists: aberta, autenticada, criador
    listagem,    \* state of the listing collection (processes.py)
    arvore,      \* state of the document-tree parser (documents.py)
    envio,       \* state of one call of enviar_form_gerar (pdf.py)
    historico,   \* state of a save and reload of the history file (storage.py)
    enriquecimento  \* state of enriquecer_processos (documents.py)

varsPDF == <<chamada, processos, opts, settings, session, atraso_arg, lote, frames, sessoes>>

\* the state of the calls checked on their own
avulsas == <<envio, historico, enriquecimento>>

vars == <<chamada, processos, opts, settings, session, atraso_arg, lote, frames, sessoes, listagem, arvore, avulsas>>

-----------------------------------------------------------------------------
(* Bounds of the model.                                                    *)

MaxProcessos == 2
MaxTentativas == 3
MaxTentativasLote == 1
MaxWorkers == 2
MaxAtraso == 6

(* Program constants.                                                      *)

AtrasoPadrao == 2
TetoAtraso == 10
LimiteMiB == 100

-----------------------------------------------------------------------------
(* Optional values: None is the empty sequence, Some(x) a one-element one. *)

None == <<>>
Some(x) == <<x>>

\* the listing collection and the tree parser when they are not in use
ListagemFora == [pc |-> "fora"]
ArvoreFora == [pc |-> "fora"]
AvulsasFora ==
    /\ envio = [pc |-> "fora"]
    /\ historico = [pc |-> "fora"]
    /\ enriquecimento = [pc |-> "fora"]

Min(a, b) == IF a < b THEN a ELSE b
Max(a, b) == IF a > b THEN a ELSE b

-----------------------------------------------------------------------------
(* Process numbers are sequences of characters.                            *)

Numeros == { <<"1", "/", "2">>, <<"1", ".", "2">>, <<"3">> }

CaracteresSeguros == {"0", "1", "2", "3", "4", "5", "6", "7", "8", "9", "_", "-", "a", "A"}

\* str.replace(de, para) for one-character arguments
Replace(s, de, para) == [k \in 1..Len(s) |-> IF s[k] = de THEN para ELSE s[k]]

RECURSIVE PularInseguros(_)
PularInseguros(s) ==
    IF s = <<>> \/ Head(s) \in CaracteresSeguros THEN s ELSE PularInseguros(Tail(s))

\* re.sub(r"[^A-Za-z0-9_-]+", "_", value)
RECURSIVE Colapsar(_)
Colapsar(s) ==
    IF s = <<>> THEN <<>>
    ELSE IF Head(s) \in CaracteresSeguros THEN <<Head(s)>> \o Colapsar(Tail(s))
    ELSE <<"_">> \o Colapsar(PularInseguros(Tail(s)))

RECURSIVE LStrip(_)
LStrip(s) == IF s # <<>> /\ Head(s) = "_" THEN LStrip(Tail(s)) ELSE s

RECURSIVE RStrip(_)
RStrip(s) ==
    IF s # <<>> /\ s[Len(s)] = "_" THEN RStrip(SubSeq(s, 1, Len(s) - 1)) ELSE s

sanitize_filename(value) ==
    IF value = <<>> THEN <<"arquivo">>
    ELSE LET safe == RStrip(LStrip(Colapsar(value)))
         IN  IF safe = <<>> THEN <<"arquivo">> ELSE safe

\* the name with "/" and "." replaced, as both abrir_processo and baixar_por_url do
NomeSeguro(numero) == Replace(Replace(numero, "/", "_"), ".", "_")

\* data_dir / "debug" / f"processo_{safe_name}.html"
ArquivoDebugProcesso(numero) ==
    [dir |-> "debug", nome |-> <<"processo_">> \o NomeSeguro(numero) \o <<".html">>]

\* data_dir / "debug" / <fixed name>
ArquivoDebug(nome) == [dir |-> "debug", nome |-> <<nome>>]

\* destino_base / f"processo_{safe_numero}.pdf"
DestinoArquivo(numero) ==
    [dir |-> "saida",
     nome |-> <<"processo_">> \o sanitize_filename(NomeSeguro(numero)) \o <<".pdf">>]

-----------------------------------------------------------------------------
(* Error texts the workflow produces.                                      *)

MsgProcesso == "Erro ao acessar processo"
MsgInesperado == "erro inesperado"
MsgSemIframe == "Iframe 'ifrArvore' nao encontrado."
MsgIframe == "Erro ao carregar iframe"
MsgSemLink == "Link 'procedimento_gerar_pdf' nao encontrado."
MsgOpcoes == "Erro ao abrir pagina de opcoes PDF"
MsgSemForm == "Nao encontrei formulario na pagina de opcoes"
MsgRedeGerar == "Erro de rede ao gerar PDF"
MsgInesperadoGerar == "Erro inesperado ao gerar PDF"
MsgSEI == "SEI retornou erro ao gerar PDF: mensagem"
MsgSEIIframe == "SEI retornou erro ao gerar PDF: mensagem do iframe"
MsgSemURL == "Nao encontrei URL de download (acao=exibir_arquivo) na resposta"
MsgTimeout == "Timeout ao baixar PDF"
MsgRedeBaixar == "Erro de rede ao baixar PDF"
MsgGrande == "Arquivo muito grande (>100MB)"
MsgFalhaBaixar == "Falha ao baixar PDF via URL do iframe"

-----------------------------------------------------------------------------
(* The steps of one attempt, in the order the code performs them, and the  *)
(* steps that send a request.                                              *)

Ordem == << "abrir_processo", "extrair_iframe", "carregar_iframe", "achar_link",
            "abrir_pagina_gerar", "enviar_form", "resolver_url", "baixar" >>

Pedidos == { "abrir_processo", "carregar_iframe", "abrir_pagina_gerar",
             "enviar_form", "iframe_download", "baixar" }

SemExc == [tipo |-> "nenhuma", msg |-> ""]

FrameInicial(p) ==
    [ pc |-> "idle", processo |-> p, tentativas |-> 0, atraso |-> 0,
      tentativa |-> 0, realizadas |-> 0, destino |-> None, erro |-> None,
      sessao |-> 0, sessao_propria |-> FALSE, exc |-> SemExc, pendente |-> FALSE,
      resultado |-> None,
      \* ghost records
      passos |-> <<>>, vezes |-> [s \in Pedidos |-> 0], historico |-> <<>>,
      esperas |-> <<>>, escritos |-> {} ]

-----------------------------------------------------------------------------
(* Ghost bookkeeping.                                                      *)

\* a step of the current attempt was performed, with its outcome
Registrar(f, passo, ok) == [f EXCEPT !.passos = Append(@, [passo |-> passo, ok |-> ok])]

\* a request was sent on the frame's session (counted per attempt)
Pedir(f, passo) == [f EXCEPT !.vezes[passo] = @ + 1]

-----------------------------------------------------------------------------
(* The workflow steps.  Each operator maps the frame and the portal's      *)
(* answer to the frame after the step.                                     *)

\* raise <tipo>(<msg>) inside the try block of the retry loop
Falhar(f, tipo, msg) == [f EXCEPT !.pc = "Failed", !.exc = [tipo |-> tipo, msg |-> msg]]

save_html(f, arquivo) ==
    IF settings.save_debug_html THEN [f EXCEPT !.escritos = @ \cup {arquivo}] ELSE f

ResultadosFetch == {"ok", "rede", "inesperado"}

abrir_processo(f, r) ==
    CASE r = "ok" ->
            [save_html(f, ArquivoDebugProcesso(f.processo.numero)) EXCEPT !.pc = "extrair_iframe"]
      [] r = "rede" -> Falhar(f, "SEIProcessoError", MsgProcesso)
      [] OTHER -> Falhar(f, "Exception", MsgInesperado)

\* mutant: the missing-frame check is skipped
ExigirIframeSemVerificar(f, achou) == [f EXCEPT !.pc = "carregar_iframe"]

\* iframe_url = extrair_iframe_arvore_src(...); if not iframe_url: raise
ExigirIframe(f, achou) ==
    IF achou THEN [f EXCEPT !.pc = "carregar_iframe"]
    ELSE Falhar(f, "SEIPDFError", MsgSemIframe)

\* mutant: a network error makes the step send its request again
carregar_iframe_arvore_repete(f, r) ==
    CASE r = "ok" ->
            [save_html(f, ArquivoDebug("processo_iframe.html")) EXCEPT !.pc = "achar_link"]
      [] r = "rede" -> f
      [] OTHER -> Falhar(f, "Exception", MsgInesperado)

carregar_iframe_arvore(f, r) ==
    CASE r = "ok" ->
            [save_html(f, ArquivoDebug("processo_iframe.html")) EXCEPT !.pc = "achar_link"]
      [] r = "rede" -> Falhar(f, "SEIPDFError", MsgIframe)
      [] OTHER -> Falhar(f, "Exception", MsgInesperado)

\* link_pdf = achar_link_gerar_pdf(...); if not link_pdf: raise
ExigirLink(f, achou) ==
    IF achou THEN [f EXCEPT !.pc = "abrir_pagina_gerar"]
    ELSE Falhar(f, "SEIPDFError", MsgSemLink)

abrir_pagina_gerar_pdf(f, r) ==
    CASE r = "ok" ->
            [save_html(f, ArquivoDebug("gerar_pdf_form.html")) EXCEPT !.pc = "enviar_form"]
      [] r = "rede" -> Falhar(f, "SEIPDFError", MsgOpcoes)
      [] OTHER -> Falhar(f, "Exception", MsgInesperado)

\* enviar_form_gerar up to the saved response: choose the form, submit it
ResultadosForm == {"ok", "sem_form", "rede", "inesperado"}

enviar_form(f, r) ==
    CASE r = "sem_form" ->
            Falhar(save_html(f, ArquivoDebug("processo_pdf_intermediario.html")),
                   "SEIPDFError", MsgSemForm)
      [] r = "rede" -> Falhar(Pedir(f, "enviar_form"), "SEIPDFError", MsgRedeGerar)
      [] r = "inesperado" ->
            Falhar(Pedir(f, "enviar_form"), "SEIPDFError", MsgInesperadoGerar)
      [] OTHER ->
            [save_html(Pedir(f, "enviar_form"), ArquivoDebug("processo_pdf_intermediario.html"))
                EXCEPT !.pc = "resolver_url"]

\* What a response page holds: the download marker (in the ifrDownload frame
\* or in a quoted string), a script assignment to the download frame's src
\* ("real": as the portal writes it; "escapado": with literal backslashes
\* before the parentheses, the dot and the s), a diagnostic message block.
Respostas == [url : BOOLEAN, js : {"nenhum", "real", "escapado"}, msg : BOOLEAN]

\* the outcome of fetching the secondary frame and what its page holds
Secundarias == [r : {"ok", "rede"}, url : BOOLEAN, msg : BOOLEAN]

extrair_url_download_do_html(html) == html.url

extrair_mensagem_erro_pdf(html) == html.msg

\* re.search(r"document.getElementById\\('ifrDownload'\\)\\.src\\s*=...", text):
\* in the raw string each "\\" is a literal backslash, so only the escaped
\* form of the assignment matches
CasaAtribuicaoIframe(html) == html.js = "escapado"

\* lines 238-241: no download URL
SemURL(f, resp) ==
    IF extrair_mensagem_erro_pdf(resp) THEN Falhar(f, "SEIPDFError", MsgSEI)
    ELSE Falhar(f, "SEIPDFError", MsgSemURL)

\* lines 213-232: resolve the download URL, through the secondary frame if needed
resolver_url(f, resp, sec) ==
    IF extrair_url_download_do_html(resp) THEN [f EXCEPT !.pc = "baixar"]
    ELSE IF CasaAtribuicaoIframe(resp) THEN
        LET g == Pedir(f, "iframe_download") IN
        IF sec.r # "ok" THEN Falhar(g, "SEIPDFError", MsgRedeGerar)
        ELSE LET h == save_html(g, ArquivoDebug("processo_pdf_iframe_download.html")) IN
             IF extrair_url_download_do_html(sec) THEN [h EXCEPT !.pc = "baixar"]
             ELSE IF extrair_mensagem_erro_pdf(sec) THEN Falhar(h, "SEIPDFError", MsgSEIIframe)
             ELSE SemURL(h, resp)
    ELSE SemURL(f, resp)

\* the download response: transport outcome, headers, body size in MiB
Tamanhos == {0, 1, LimiteMiB, LimiteMiB + 1}
Downloads == [r : {"ok", "timeout", "rede"}, ctype_pdf : BOOLEAN, disp_pdf : BOOLEAN,
              tamanho : Tamanhos]

\* mutant: the error text of the previous attempt is kept on success
AposSucessoSemLimparErro(f, caminho) ==
    [f EXCEPT !.destino = Some(caminho), !.pc = "finally", !.historico = Append(@, "ok")]

\* lines 298-307: destino = enviar_form_gerar(...); erro = None; break
AposSucesso(f, caminho) ==
    [f EXCEPT !.destino = Some(caminho), !.erro = None, !.pc = "finally",
              !.historico = Append(@, "ok")]

\* the size test without a threshold
nunca_grande(tamanho) == FALSE

\* tamanho_total > 100 * 1024 * 1024
muito_grande(tamanho) == tamanho > LimiteMiB

\* baixar_por_url and lines 233-236 of enviar_form_gerar
baixar_por_url(f, d) ==
    CASE d.r = "timeout" -> Falhar(f, "SEIPDFError", MsgTimeout)
      [] d.r = "rede" -> Falhar(f, "SEIPDFError", MsgRedeBaixar)
      [] OTHER ->
            IF d.ctype_pdf \/ d.disp_pdf THEN
                LET g == [f EXCEPT !.escritos = @ \cup {DestinoArquivo(f.processo.numero)}] IN
                IF muito_grande(d.tamanho) THEN Falhar(g, "SEIPDFError", MsgGrande)
                ELSE IF d.tamanho = 0 THEN Falhar(g, "SEIPDFError", MsgFalhaBaixar)
                ELSE AposSucesso(g, DestinoArquivo(f.processo.numero))
            ELSE Falhar(save_html(f, ArquivoDebug("processo_pdf_intermediario.html")),
                        "SEIPDFError", MsgFalhaBaixar)

-----------------------------------------------------------------------------
(* The retry loop of baixar_pdf_processo.                                  *)

\* the loop without tentativas_realizadas = tentativa
ProximaTentativaSemContar(f) ==
    IF f.tentativa + 1 <= f.tentativas
    THEN [f EXCEPT !.tentativa = @ + 1,
                   !.passos = <<>>, !.vezes = [s \in Pedidos |-> 0],
                   !.pc = "abrir_processo"]
    ELSE [f EXCEPT !.pc = "finally"]

\* for tentativa in range(1, tentativas + 1): tentativas_realizadas = tentativa
ProximaTentativa(f) ==
    IF f.tentativa + 1 <= f.tentativas
    THEN [f EXCEPT !.tentativa = @ + 1, !.realizadas = f.tentativa + 1,
                   !.passos = <<>>, !.vezes = [s \in Pedidos |-> 0],
                   !.pc = "abrir_processo"]
    ELSE [f EXCEPT !.pc = "finally"]

\* mutant: only the two artifact errors are caught
CapturadaSoSEI(tipo) == tipo \in {"SEIProcessoError", "SEIPDFError"}

\* except (SEIProcessoError, SEIPDFError) ... except Exception
Capturada(tipo) == tipo \in {"SEIProcessoError", "SEIPDFError", "Exception"}

\* mutant: the delay is not capped
AtrasoSemTeto(atraso, tentativa) == atraso * tentativa

\* min(atraso_retry * tentativa, 10)
Atraso(atraso, tentativa) == Min(atraso * tentativa, TetoAtraso)

\* if tentativa < tentativas: time.sleep(...) else: break
AposFalha(f) ==
    IF f.tentativa < f.tentativas
    THEN ProximaTentativa(
            [f EXCEPT !.esperas = Append(@, [apos |-> f.tentativa,
                                              segundos |-> Atraso(f.atraso, f.tentativa)])])
    ELSE [f EXCEPT !.pc = "finally"]

tratar_excecao(f) ==
    IF Capturada(f.exc.tipo)
    THEN AposFalha([f EXCEPT !.erro = Some(f.exc.msg), !.exc = SemExc,
                             !.historico = Append(@, f.exc.tipo)])
    ELSE [f EXCEPT !.pc = "finally", !.pendente = TRUE]

\* sucesso = destino is not None and erro is None; PDFDownloadResult(...)
Resultado(f) ==
    [ processo |-> f.processo, sucesso |-> (f.destino # None /\ f.erro = None),
      caminho |-> f.destino, erro |-> f.erro, tentativas |-> f.realizadas ]

\* after the finally block: the pending exception leaves the call, or the
\* Result is returned
finalizar(f) ==
    IF f.pendente THEN [f EXCEPT !.pc = "propagou"]
    ELSE [f EXCEPT !.pc = "fim", !.resultado = Some(Resultado(f))]

\* lines 270-284: locals, the session to use, entry into the loop
Entrar(f, sid, propria, tentativas, atraso) ==
    ProximaTentativa([f EXCEPT !.sessao = sid, !.sessao_propria = propria,
                               !.tentativas = tentativas, !.atraso = atraso,
                               !.tentativa = 0, !.realizadas = 0,
                               !.destino = None, !.erro = None])

NovaSessao(i) == [aberta |-> TRUE, autenticada |-> FALSE, criador |-> i]

-----------------------------------------------------------------------------
(* Actions of one frame.                                                   *)

Invocar(i, sess, tentativas, atraso) ==
    LET propria == sess = None
        sid == IF propria THEN Len(sessoes) + 1 ELSE sess[1]
    IN  /\ sessoes' = IF propria THEN Append(sessoes, NovaSessao(i)) ELSE sessoes
        /\ frames' = [frames EXCEPT ![i] = Entrar(@, sid, propria, tentativas, atraso)]

AbrirProcesso(i) ==
    /\ frames[i].pc = "abrir_processo"
    /\ \E r \in ResultadosFetch :
         frames' = [frames EXCEPT ![i] =
            abrir_processo(Pedir(Registrar(@, "abrir_processo", r = "ok"), "abrir_processo"), r)]
    /\ UNCHANGED <<chamada, processos, opts, settings, session, atraso_arg, lote, sessoes, listagem, arvore, avulsas>>

ExtrairIframe(i) ==
    /\ frames[i].pc = "extrair_iframe"
    /\ \E achou \in BOOLEAN :
         frames' = [frames EXCEPT ![i] =
            ExigirIframe(Registrar(@, "extrair_iframe", achou), achou)]
    /\ UNCHANGED <<chamada, processos, opts, settings, session, atraso_arg, lote, sessoes, listagem, arvore, avulsas>>

CarregarIframe(i) ==
    /\ frames[i].pc = "carregar_iframe"
    /\ \E r \in ResultadosFetch :
         frames' = [frames EXCEPT ![i] =
            carregar_iframe_arvore(
                Pedir(Registrar(@, "carregar_iframe", r = "ok"), "carregar_iframe"), r)]
    /\ UNCHANGED <<chamada, processos, opts, settings, session, atraso_arg, lote, sessoes, listagem, arvore, avulsas>>

AcharLink(i) ==
    /\ frames[i].pc = "achar_link"
    /\ \E achou \in BOOLEAN :
         frames' = [frames EXCEPT ![i] = ExigirLink(Registrar(@, "achar_link", achou), achou)]
    /\ UNCHANGED <<chamada, processos, opts, settings, session, atraso_arg, lote, sessoes, listagem, arvore, avulsas>>

AbrirPaginaGerar(i) ==
    /\ frames[i].pc = "abrir_pagina_gerar"
    /\ \E r \in ResultadosFetch :
         frames' = [frames EXCEPT ![i] =
            abrir_pagina_gerar_pdf(
                Pedir(Registrar(@, "abrir_pagina_gerar", r = "ok"), "abrir_pagina_gerar"), r)]
    /\ UNCHANGED <<chamada, processos, opts, settings, session, atraso_arg, lote, sessoes, listagem, arvore, avulsas>>

EnviarForm(i) ==
    /\ frames[i].pc = "enviar_form"
    /\ \E r \in ResultadosForm :
         frames' = [frames EXCEPT ![i] = enviar_form(Registrar(@, "enviar_form", r = "ok"), r)]
    /\ UNCHANGED <<chamada, processos, opts, settings, session, atraso_arg, lote, sessoes, listagem, arvore, avulsas>>

\* whether the portal's pages hold a download URL the code's rules can reach
URLAlcancavel(resp, sec) ==
    resp.url \/ (resp.js = "escapado" /\ sec.r = "ok" /\ sec.url)

ResolverURL(i) ==
    /\ frames[i].pc = "resolver_url"
    /\ \E resp \in Respostas, sec \in Secundarias :
         frames' = [frames EXCEPT ![i] =
            resolver_url(Registrar(@, "resolver_url", URLAlcancavel(resp, sec)), resp, sec)]
    /\ UNCHANGED <<chamada, processos, opts, settings, session, atraso_arg, lote, sessoes, listagem, arvore, avulsas>>

\* whether the download response is an acceptable artifact
DownloadBom(d) ==
    d.r = "ok" /\ (d.ctype_pdf \/ d.disp_pdf) /\ d.tamanho > 0 /\ d.tamanho <= LimiteMiB

BaixarPorUrl(i) ==
    /\ frames[i].pc = "baixar"
    /\ \E d \in Downloads :
         frames' = [frames EXCEPT ![i] =
            baixar_por_url(Pedir(Registrar(@, "baixar", DownloadBom(d)), "baixar"), d)]
    /\ UNCHANGED <<chamada, processos, opts, settings, session, atraso_arg, lote, sessoes, listagem, arvore, avulsas>>

TratarExcecao(i) ==
    /\ frames[i].pc = "Failed"
    /\ frames' = [frames EXCEPT ![i] = tratar_excecao(@)]
    /\ UNCHANGED <<chamada, processos, opts, settings, session, atraso_arg, lote, sessoes, listagem, arvore, avulsas>>

\* sessao.close() whoever created the session
fechar_sempre(f, ss) == [ss EXCEPT ![f.sessao].aberta = FALSE]

\* if sessao_propria and sessao: sessao.close()
fechar_se_propria(f, ss) ==
    IF f.sessao_propria THEN [ss EXCEPT ![f.sessao].aberta = FALSE] ELSE ss

\* finally: close the session the call created; then build the Result
Finalizar(i) ==
    /\ frames[i].pc = "finally"
    /\ sessoes' = fechar_se_propria(frames[i], sessoes)
    /\ frames' = [frames EXCEPT ![i] = finalizar(frames[i])]
    /\ UNCHANGED <<chamada, processos, opts, settings, session, atraso_arg, lote, listagem, arvore, avulsas>>

-----------------------------------------------------------------------------
(* A direct call of baixar_pdf_processo (gerar_pdf_processo is the call    *)
(* with tentativas = 1).                                                   *)

Processo(id, numero) == [id |-> id, numero |-> numero]

SessaoChamador == [aberta |-> TRUE, autenticada |-> TRUE, criador |-> 0]

LoteFora == [pc |-> "fora", alvo |-> <<>>, resultados |-> <<>>, coletados |-> {}, pausas |-> 0]

OpcoesPadrao(tentativas) ==
    [paralelo |-> FALSE, workers |-> MaxWorkers, tentativas |-> tentativas, limite |-> None]

InitUnico ==
    /\ chamada = "unico"
    /\ processos = <<Processo(1, <<"1", "/", "2">>)>>
    /\ \E t \in 0..MaxTentativas : opts = OpcoesPadrao(t)
    /\ settings \in [save_debug_html : BOOLEAN]
    /\ session \in {None, Some(1)}
    /\ atraso_arg \in {0, AtrasoPadrao, MaxAtraso}
    /\ lote = LoteFora
    /\ frames = <<FrameInicial(processos[1])>>
    /\ sessoes = <<SessaoChamador>>
    /\ listagem = ListagemFora
    /\ arvore = ArvoreFora
    /\ AvulsasFora

UnicoChamar ==
    /\ chamada = "unico"
    /\ frames[1].pc = "idle"
    /\ Invocar(1, session, opts.tentativas, atraso_arg)
    /\ UNCHANGED <<chamada, processos, opts, settings, session, atraso_arg, lote, listagem, arvore, avulsas>>

NextUnico ==
    \/ UnicoChamar
    \/ \E i \in DOMAIN frames : AbrirProcesso(i)
    \/ \E i \in DOMAIN frames : ExtrairIframe(i)
    \/ \E i \in DOMAIN frames : CarregarIframe(i)
    \/ \E i \in DOMAIN frames : AcharLink(i)
    \/ \E i \in DOMAIN frames : AbrirPaginaGerar(i)
    \/ \E i \in DOMAIN frames : EnviarForm(i)
    \/ \E i \in DOMAIN frames : ResolverURL(i)
    \/ \E i \in DOMAIN frames : BaixarPorUrl(i)
    \/ \E i \in DOMAIN frames : TratarExcecao(i)
    \/ \E i \in DOMAIN frames : Finalizar(i)

SpecUnico == InitUnico /\ [][NextUnico]_vars

-----------------------------------------------------------------------------
(* baixar_pdfs_em_lote.                                                    *)

NumeroBase == <<"1", "/", "2">>
OutrosNumeros == Numeros \ {NumeroBase}

\* input lists: the first record has the base number, every later one a
\* number that sanitizes to the same file name or to another one
RECURSIVE ListasDe(_)
ListasDe(n) ==
    IF n = 0 THEN {<<>>}
    ELSE IF n = 1 THEN {<<Processo(1, NumeroBase)>>}
    ELSE {Append(l, Processo(n, m)) : l \in ListasDe(n - 1), m \in OutrosNumeros}

ListasProcessos == UNION {ListasDe(n) : n \in 0..MaxProcessos}

Limites == {None} \cup {Some(k) : k \in 0..(MaxProcessos - 1)}

\* mutant: the limit is ignored
ProcessosAlvoSemLimite(ps, limite) == ps

\* processos[: options.limite_processos] when the limit is set and positive
ProcessosAlvo(ps, limite) ==
    IF limite # None /\ limite[1] > 0
    THEN SubSeq(ps, 1, Min(limite[1], Len(ps)))
    ELSE ps

\* mutant: the result is put in front
AnexarNaFrente(resultados, r) == <<r>> \o resultados

\* resultados.append(resultado)
Anexar(resultados, r) == Append(resultados, r)

\* mutant: the parallel branch hands the caller's session to every call
ArgSessaoCompartilhada == session

\* the session argument the parallel branch submits: None
ArgSessaoParalelo == None

\* the frame of a call that has returned: its locals are gone
FrameRetornado(p) == [FrameInicial(p) EXCEPT !.pc = "retornado"]

Ativo(f) == f.pc \notin {"idle", "fim", "propagou", "retornado"}

Ativos == {i \in DOMAIN frames : Ativo(frames[i])}

InitLote ==
    /\ chamada = "lote"
    /\ processos \in ListasProcessos
    /\ opts \in [paralelo : BOOLEAN, workers : 0..MaxWorkers,
                 tentativas : 0..MaxTentativasLote, limite : Limites]
    /\ ~opts.paralelo => opts.workers = MaxWorkers
    /\ settings \in [save_debug_html : BOOLEAN]
    /\ session = Some(1)
    /\ atraso_arg = AtrasoPadrao
    /\ lote = [pc |-> "inicio", alvo |-> <<>>, resultados |-> <<>>, coletados |-> {},
               pausas |-> 0]
    /\ frames = <<>>
    /\ sessoes = <<SessaoChamador>>
    /\ listagem = ListagemFora
    /\ arvore = ArvoreFora
    /\ AvulsasFora

\* lines 345-363 (and, in the parallel branch, the submission of every call)
LoteEntrar ==
    /\ lote.pc = "inicio"
    /\ IF processos = <<>>
       THEN /\ lote' = [lote EXCEPT !.pc = "retornou"]
            /\ frames' = frames
       ELSE LET alvo == ProcessosAlvo(processos, opts.limite) IN
            /\ lote' = [lote EXCEPT !.pc = IF opts.paralelo THEN "par" ELSE "seq",
                                    !.alvo = alvo]
            /\ frames' = [i \in 1..Len(alvo) |-> FrameInicial(alvo[i])]
    /\ UNCHANGED <<chamada, processos, opts, settings, session, atraso_arg, sessoes, listagem, arvore, avulsas>>

\* lines 384-392: the next record's call, on the caller's session
SeqChamar ==
    /\ lote.pc = "seq"
    /\ LET idx == Len(lote.resultados) + 1 IN
         /\ idx <= Len(lote.alvo)
         /\ frames[idx].pc = "idle"
         /\ Invocar(idx, session, opts.tentativas, AtrasoPadrao)
    /\ UNCHANGED <<chamada, processos, opts, settings, session, atraso_arg, lote, listagem, arvore, avulsas>>

\* lines 393-395: the call returned (or raised); append, pause before the next
SeqAnexar ==
    /\ lote.pc = "seq"
    /\ LET idx == Len(lote.resultados) + 1 IN
         /\ idx <= Len(lote.alvo)
         /\ frames[idx].pc \in {"fim", "propagou"}
         /\ IF frames[idx].pc = "propagou"
            THEN /\ lote' = [lote EXCEPT !.pc = "abortado"]
                 /\ frames' = frames
            ELSE /\ lote' = [lote EXCEPT
                        !.resultados = Anexar(@, frames[idx].resultado[1]),
                        !.pausas = IF idx < Len(lote.alvo) THEN @ + 1 ELSE @]
                 /\ frames' = [frames EXCEPT ![idx] = FrameRetornado(@.processo)]
    /\ UNCHANGED <<chamada, processos, opts, settings, session, atraso_arg, sessoes, listagem, arvore, avulsas>>

\* a pool thread takes the oldest queued call; at most max(1, workers) run
ParIniciar(i) ==
    /\ lote.pc = "par"
    /\ frames[i].pc = "idle"
    /\ \A j \in 1..(i - 1) : frames[j].pc # "idle"
    /\ Cardinality(Ativos) < Max(1, opts.workers)
    /\ Invocar(i, ArgSessaoParalelo, opts.tentativas, AtrasoPadrao)
    /\ UNCHANGED <<chamada, processos, opts, settings, session, atraso_arg, lote, listagem, arvore, avulsas>>

\* for futuro in as_completed(futuros): resultados.append(futuro.result())
ParColetar(i) ==
    /\ lote.pc = "par"
    /\ i \notin lote.coletados
    /\ frames[i].pc \in {"fim", "propagou"}
    /\ IF frames[i].pc = "propagou"
       THEN /\ lote' = [lote EXCEPT !.pc = "abortado"]
            /\ frames' = frames
       ELSE /\ lote' = [lote EXCEPT !.resultados = Anexar(@, frames[i].resultado[1]),
                                    !.coletados = @ \cup {i}]
            /\ frames' = [frames EXCEPT ![i] = FrameRetornado(@.processo)]
    /\ UNCHANGED <<chamada, processos, opts, settings, session, atraso_arg, sessoes, listagem, arvore, avulsas>>

\* lines 397-413: the summary, and the return of the result list
LoteRetornar ==
    /\ lote.pc \in {"seq", "par"}
    /\ Len(lote.resultados) = Len(lote.alvo)
    /\ lote' = [lote EXCEPT !.pc = "retornou"]
    /\ UNCHANGED <<chamada, processos, opts, settings, session, atraso_arg, frames, sessoes, listagem, arvore, avulsas>>

Next ==
    \/ LoteEntrar
    \/ SeqChamar
    \/ SeqAnexar
    \/ \E i \in DOMAIN frames : ParIniciar(i)
    \/ \E i \in DOMAIN frames : ParColetar(i)
    \/ LoteRetornar
    \/ \E i \in DOMAIN frames : AbrirProcesso(i)
    \/ \E i \in DOMAIN frames : ExtrairIframe(i)
    \/ \E i \in DOMAIN frames : CarregarIframe(i)
    \/ \E i \in DOMAIN frames : AcharLink(i)
    \/ \E i \in DOMAIN frames : AbrirPaginaGerar(i)
    \/ \E i \in DOMAIN frames : EnviarForm(i)
    \/ \E i \in DOMAIN frames : ResolverURL(i)
    \/ \E i \in DOMAIN frames : BaixarPorUrl(i)
    \/ \E i \in DOMAIN frames : TratarExcecao(i)
    \/ \E i \in DOMAIN frames : Finalizar(i)

Spec == InitLote /\ [][Next]_vars

-----------------------------------------------------------------------------
(* Properties of the retry loop of one call (specification SpecUnico).    *)

Recuperaveis == {"SEIProcessoError", "SEIPDFError"}

FalhouFalhouSucesso(f) ==
    /\ f.tentativas >= 3
    /\ Len(f.historico) >= 3
    /\ f.historico[1] \in Recuperaveis
    /\ f.historico[2] \in Recuperaveis
    /\ f.historico[3] = "ok"

\* C1: with at least 3 configured attempts, a call whose attempts 1 and 2
\* raised a recoverable artifact error and whose attempt 3 succeeded returns
\* a Result with success, the output path, no error text and attempt count
\* 3; attempt 3 is the last attempt started.
C1_SucessoNaTerceira ==
    \A i \in DOMAIN frames :
        LET f == frames[i] IN
        FalhouFalhouSucesso(f) =>
            /\ Len(f.historico) = 3
            /\ f.tentativa = 3
            /\ f.pc \in {"finally", "fim"}
            /\ f.pc = "fim" =>
                  f.resultado = Some([ processo |-> f.processo, sucesso |-> TRUE,
                                       caminho |-> Some(DestinoArquivo(f.processo.numero)),
                                       erro |-> None, tentativas |-> 3 ])

C1_Witness ==
    \E i \in DOMAIN frames : frames[i].pc = "fim" /\ FalhouFalhouSucesso(frames[i])

\* C4: within one attempt the steps happen in the fixed order; a step is
\* started only after every earlier step of the attempt succeeded; a failed
\* step ends the attempt (no later step follows it); an output path exists
\* only after all eight steps succeeded.
C4_PassosEmOrdem ==
    \A i \in DOMAIN frames :
        LET f == frames[i]
            n == Len(f.passos)
        IN  /\ n <= Len(Ordem)
            /\ \A k \in 1..n : f.passos[k].passo = Ordem[k]
            /\ \A k \in 1..(n - 1) : f.passos[k].ok
            /\ (n > 0 /\ ~f.passos[n].ok) => f.pc \in {"Failed", "finally", "fim"}
            /\ (\E k \in 1..Len(Ordem) : f.pc = Ordem[k]) => f.pc = Ordem[n + 1]
            /\ f.pc = "Failed" => (n > 0 /\ ~f.passos[n].ok)
            /\ f.destino # None => (n = Len(Ordem) /\ \A k \in 1..n : f.passos[k].ok)

C4_Witness ==
    \E i \in DOMAIN frames :
        /\ frames[i].destino # None
        /\ frames[i].tentativa = 2
        /\ Len(frames[i].passos) = Len(Ordem)

\* C5: no step sends its request more than once within an attempt (the
\* counters restart when the retry loop starts the next attempt, so over the
\* whole call no step runs more often than attempts were made).
C5_PassosNaoRepetem ==
    \A i \in DOMAIN frames :
        LET f == frames[i] IN
        /\ \A s \in Pedidos : f.vezes[s] <= 1
        /\ \A s \in Pedidos : f.vezes[s] > 0 => f.realizadas >= 1
        /\ \A j, k \in 1..Len(f.passos) : f.passos[j].passo = f.passos[k].passo => j = k

C5_Witness ==
    \E i \in DOMAIN frames :
        /\ frames[i].tentativa = 3
        /\ \A s \in Pedidos : frames[i].vezes[s] = 1

FalhasAntesDaUltima(f) ==
    {k \in 1..Len(f.historico) : f.historico[k] # "ok" /\ k < f.tentativas}

\* C10: the delay slept after the k-th failed attempt, k below the attempt
\* count, is min(atraso_retry * k, 10): never above 10 and non-decreasing in
\* k; nothing is slept after the last attempt or after a success.
C10_AtrasoLimitado ==
    \A i \in DOMAIN frames :
        LET f == frames[i] IN
        /\ Len(f.esperas) = Cardinality(FalhasAntesDaUltima(f))
        /\ \A k \in 1..Len(f.esperas) :
              /\ f.esperas[k].apos = k
              /\ k < f.tentativas
              /\ f.historico[k] # "ok"
              /\ f.esperas[k].segundos = Min(f.atraso * k, 10)
              /\ f.esperas[k].segundos <= 10
              /\ k > 1 => f.esperas[k - 1].segundos <= f.esperas[k].segundos

C10_Witness ==
    \E i \in DOMAIN frames :
        /\ frames[i].pc = "fim"
        /\ Len(frames[i].esperas) = 2
        /\ frames[i].esperas[1].segundos < 10
        /\ frames[i].esperas[2].segundos = 10
        /\ Len(frames[i].historico) = 3

-----------------------------------------------------------------------------
(* Properties of the batch (specification Spec).                           *)

Falhou(r) == ~r.sucesso

\* C2: a record whose every attempt fails, with an artifact error or with an
\* unexpected exception, gets a failure Result: no exception leaves
\* baixar_pdf_processo, the batch is never aborted and never stuck before it
\* returns, and when it returns every target record, the ones after a
\* failing record included, has had its workflow run to a Result (a failure
\* Result only after all configured attempts).
C2_FalhaNaoAborta ==
    /\ lote.pc # "abortado"
    /\ \A i \in DOMAIN frames :
          LET f == frames[i] IN
          /\ f.pc # "propagou" /\ ~f.pendente
          /\ (f.pc = "fim" /\ \A k \in 1..Len(f.historico) : f.historico[k] # "ok") =>
                /\ Falhou(f.resultado[1])
                /\ f.resultado[1].tentativas = f.tentativas
    /\ lote.pc \in {"seq", "par"} => ENABLED Next
    /\ lote.pc = "retornou" =>
          /\ Len(lote.resultados) = Len(lote.alvo)
          /\ \A j \in 1..Len(lote.alvo) :
                \E k \in 1..Len(lote.resultados) :
                    /\ lote.resultados[k].processo = lote.alvo[j]
                    /\ lote.resultados[k].tentativas = opts.tentativas
                          \/ (lote.resultados[k].sucesso /\ lote.resultados[k].tentativas >= 1)

C2_Witness ==
    /\ ~opts.paralelo
    /\ lote.pc = "retornou"
    /\ Len(lote.resultados) = 2
    /\ Falhou(lote.resultados[1])
    /\ lote.resultados[1].erro = Some(MsgInesperado)
    /\ lote.resultados[2].sucesso

\* C3 as stated: the returned list has the size of the input list, one
\* Result for each input Record, and every failure Result has a reason.
C3_TamanhoDaEntrada ==
    lote.pc = "retornou" =>
        /\ Len(lote.resultados) = Len(processos)
        /\ \A j \in 1..Len(processos) :
              \E k \in 1..Len(lote.resultados) : lote.resultados[k].processo = processos[j]
        /\ \A k \in 1..Len(lote.resultados) :
              Falhou(lote.resultados[k]) => lote.resultados[k].erro # None

\* the records the batch is to process, written from the options alone
AlvoEsperado ==
    LET n == IF opts.limite # None /\ opts.limite[1] > 0
             THEN Min(opts.limite[1], Len(processos))
             ELSE Len(processos)
    IN  [k \in 1..n |-> processos[k]]

\* C3 (amended): the returned list holds exactly one Result for each target
\* Record (the first limite_processos input Records when the limit is set
\* and positive, every input Record otherwise), in any order; each Result
\* carries its Record and a success flag; a success has a path and no error
\* text; a failure after at least one attempt has an error text.
C3_UmResultadoPorAlvo ==
    LET rs == lote.resultados IN
    /\ \A j, k \in 1..Len(rs) : rs[j].processo = rs[k].processo => j = k
    /\ \A k \in 1..Len(rs) :
          /\ \E j \in 1..Len(AlvoEsperado) : rs[k].processo = AlvoEsperado[j]
          /\ rs[k].sucesso \in BOOLEAN
          /\ rs[k].sucesso => (rs[k].caminho # None /\ rs[k].erro = None)
          /\ (Falhou(rs[k]) /\ rs[k].tentativas >= 1) => rs[k].erro # None
    /\ lote.pc = "retornou" =>
          /\ Len(rs) = Len(AlvoEsperado)
          /\ \A j \in 1..Len(AlvoEsperado) :
                \E k \in 1..Len(rs) : rs[k].processo = AlvoEsperado[j]

C3_Witness ==
    /\ opts.paralelo
    /\ lote.pc = "retornou"
    /\ Len(processos) = 2
    /\ Len(lote.resultados) = 2
    /\ lote.resultados[1].processo = processos[2]
    /\ Falhou(lote.resultados[1])
    /\ lote.resultados[2].sucesso

\* C6: in sequential mode the k-th Result belongs to the k-th target Record,
\* the call for record i starts only after the Results of records 1..i-1
\* were appended, and at most one call runs at a time.
C6_OrdemSequencial ==
    ~opts.paralelo =>
        /\ Len(lote.resultados) <= Len(lote.alvo)
        /\ \A k \in 1..Len(lote.resultados) : lote.resultados[k].processo = lote.alvo[k]
        /\ \A i \in DOMAIN frames :
              frames[i].pc # "idle" => Len(lote.resultados) >= i - 1
        /\ \A i \in DOMAIN frames :
              frames[i].pc \notin {"idle", "retornado"} => Len(lote.resultados) = i - 1
        /\ Cardinality(Ativos) <= 1

C6_Witness ==
    /\ ~opts.paralelo
    /\ Len(lote.alvo) = 2
    /\ Len(lote.resultados) = 1
    /\ lote.resultados[1].processo = lote.alvo[1]
    /\ Ativo(frames[2])
    /\ frames[2].passos # <<>>

\* a call that has entered and not yet handed back its Result
EmCurso(f) == f.pc \notin {"idle", "retornado"}

\* C7: in parallel mode every call runs on a session it created itself,
\* never on the caller's session, and no two calls hold the same session.
C7_SessaoPorWorker ==
    opts.paralelo =>
        \A i \in DOMAIN frames :
            EmCurso(frames[i]) =>
                /\ frames[i].sessao_propria
                /\ Some(frames[i].sessao) # session
                /\ frames[i].sessao \in DOMAIN sessoes
                /\ sessoes[frames[i].sessao].criador = i
                /\ \A j \in DOMAIN frames :
                      (j # i /\ EmCurso(frames[j])) => frames[j].sessao # frames[i].sessao

C7_Witness ==
    /\ opts.paralelo
    /\ \E i, j \in Ativos :
          /\ i # j
          /\ frames[i].passos # <<>>
          /\ frames[j].passos # <<>>

\* C8 as stated: in parallel mode every session a worker has sent a
\* workflow request on has been authenticated.
C8_WorkerAutenticado ==
    opts.paralelo =>
        \A i \in DOMAIN frames :
            (EmCurso(frames[i]) /\ \E s \in Pedidos : frames[i].vezes[s] > 0) =>
                sessoes[frames[i].sessao].autenticada

\* C9 as stated: in parallel mode no two concurrently running workers have
\* written the same resource (session, output file, debug file).
C9_SemRecursoCompartilhado ==
    opts.paralelo =>
        \A i, j \in Ativos :
            i # j =>
                /\ frames[i].sessao # frames[j].sessao
                /\ frames[i].escritos \cap frames[j].escritos = {}

-----------------------------------------------------------------------------
(* The control page of the portal (processes.py).  Texts are sequences of  *)
(* characters; a caption is a sequence of whitespace-separated tokens, a   *)
(* word or a run of digits.                                                *)

Grupos == <<"Recebidos", "Gerados">>

Digitos == {"0", "1", "2", "3", "4", "5", "6", "7", "8", "9"}

ValorDigito(c) ==
    CASE c = "0" -> 0 [] c = "1" -> 1 [] c = "2" -> 2 [] c = "3" -> 3 [] c = "4" -> 4
      [] c = "5" -> 5 [] c = "6" -> 6 [] c = "7" -> 7 [] c = "8" -> 8 [] OTHER -> 9

SoDigitos(s) == s # <<>> /\ \A k \in 1..Len(s) : s[k] \in Digitos

RECURSIVE ValorDe(_)
ValorDe(s) ==
    IF s = <<>> THEN 0
    ELSE ValorDe(SubSeq(s, 1, Len(s) - 1)) * 10 + ValorDigito(s[Len(s)])

\* int(text): None stands for ValueError
int(s) ==
    IF SoDigitos(s) THEN Some(ValorDe(s))
    ELSE IF s # <<>> /\ s[1] = "-" /\ SoDigitos(Tail(s)) THEN Some(0 - ValorDe(Tail(s)))
    ELSE None

CaractereDigito(d) ==
    CASE d = 0 -> "0" [] d = 1 -> "1" [] d = 2 -> "2" [] d = 3 -> "3" [] d = 4 -> "4"
      [] d = 5 -> "5" [] d = 6 -> "6" [] d = 7 -> "7" [] d = 8 -> "8" [] OTHER -> "9"

\* str(n) for n >= 0
RECURSIVE str(_)
str(n) ==
    IF n < 10 THEN <<CaractereDigito(n)>>
    ELSE Append(str(n \div 10), CaractereDigito(n % 10))

Palavra(w) == [t |-> "w", w |-> w, n |-> <<>>]
Num(digitos) == [t |-> "n", w |-> "", n |-> digitos]

\* the leftmost position of a set of positions, 0 when there is none
Primeiro(S) == IF S = {} THEN 0 ELSE CHOOSE k \in S : \A j \in S : k <= j

\* re.search(r"(\d+)\s+registros", texto)
CasaTotal(texto) ==
    Primeiro({k \in 1..(Len(texto) - 1) :
                texto[k].t = "n" /\ texto[k + 1] = Palavra("registros")})

\* re.search(r"-\s*(\d+)\s*a\s*(\d+)", texto)
CasaIntervalo(texto) ==
    Primeiro({k \in 1..(Len(texto) - 3) :
                /\ texto[k] = Palavra("-")
                /\ texto[k + 1].t = "n"
                /\ texto[k + 2] = Palavra("a")
                /\ texto[k + 3].t = "n"})

parse_caption_info(texto) ==
    LET m_total == CasaTotal(texto)
        total_registros == IF m_total # 0 THEN ValorDe(texto[m_total].n) ELSE 0
        m_intervalo == CasaIntervalo(texto)
        itens == IF m_intervalo # 0
                 THEN Max(0, ValorDe(texto[m_intervalo + 3].n)
                             - ValorDe(texto[m_intervalo + 1].n) + 1)
                 ELSE 0
    IN  [ total_registros |-> total_registros,
          itens_por_pagina |-> IF itens = 0 /\ total_registros # 0
                               THEN total_registros ELSE itens ]

\* mutant: the quotient is rounded down
Piso(a, b) == a \div b

\* math.ceil(a / b) for a >= 0, b > 0
Ceil(a, b) == (a + b - 1) \div b

\* field names: f"{prefixo}{grupo}{sufixo}"
Nome(prefixo, grupo, sufixo) == <<prefixo, grupo, sufixo>>

\* soup.select_one("#<nome>"): the first element of the page with the name
Selecionar(pagina, nome) ==
    Primeiro({k \in 1..Len(pagina.campos) : pagina.campos[k].name = nome})

\* _get_attr_str(tag, "value") if tag else None
ValorOculto(pagina, nome) ==
    LET k == Selecionar(pagina, nome) IN
    IF k = 0 THEN None ELSE Some(pagina.campos[k].value)

Verdadeiro(v) == v # None /\ v[1] # <<>>

\* len([item for item in valor.split(",") if item])
RECURSIVE ContarItens(_, _)
ContarItens(s, dentro) ==
    IF s = <<>> THEN 0
    ELSE IF Head(s) = "," THEN ContarItens(Tail(s), FALSE)
    ELSE (IF dentro THEN 0 ELSE 1) + ContarItens(Tail(s), TRUE)

info_do_grupo(pagina, grupo) ==
    LET tabela == pagina.tabelas[grupo]
        legenda == IF tabela # None /\ tabela[1].caption # None
                   THEN parse_caption_info(tabela[1].caption[1])
                   ELSE [total_registros |-> 0, itens_por_pagina |-> 0]
        linhas == IF tabela # None THEN Len(tabela[1].linhas) ELSE 0
        itens1 == IF legenda.itens_por_pagina <= 0 /\ linhas > 0
                  THEN linhas ELSE legenda.itens_por_pagina
        total1 == IF legenda.total_registros <= 0 /\ linhas > 0
                  THEN linhas ELSE legenda.total_registros
        valor_nro == ValorOculto(pagina, Nome("hdn", grupo, "NroItens"))
        itens2 == IF Verdadeiro(valor_nro) /\ int(valor_nro[1]) # None /\ itens1 <= 0
                  THEN int(valor_nro[1])[1] ELSE itens1
        valor_itens == ValorOculto(pagina, Nome("hdn", grupo, "Itens"))
        total2 == IF total1 <= 0 /\ Verdadeiro(valor_itens)
                  THEN ContarItens(valor_itens[1], FALSE) ELSE total1
        valor_pagina == ValorOculto(pagina, Nome("hdn", grupo, "PaginaAtual"))
        pagina_atual == IF Verdadeiro(valor_pagina) /\ int(valor_pagina[1]) # None
                        THEN int(valor_pagina[1])[1] ELSE 0
        itens3 == IF itens2 <= 0 THEN Max(1, IF total2 # 0 THEN total2 ELSE 1) ELSE itens2
    IN  [ total_registros |-> total2,
          pagina_atual |-> pagina_atual,
          total_paginas |-> IF itens3 # 0 THEN Max(1, Ceil(total2, itens3)) ELSE 1,
          itens_por_pagina |-> itens3 ]

obter_paginacao_info(pagina) ==
    [grupo \in {Grupos[k] : k \in DOMAIN Grupos} |-> info_do_grupo(pagina, grupo)]

-----------------------------------------------------------------------------
(* Elements of the page: form controls and table rows.                     *)

Input(type, name, value, checked) ==
    [tag |-> "input", type |-> type, name |-> name, value |-> value,
     checked |-> checked, opcoes |-> <<>>]

Oculto(name, value) == Input("hidden", name, value, FALSE)

Opcao(value, selected) == [value |-> value, selected |-> selected]

Select(name, opcoes) ==
    [tag |-> "select", type |-> "", name |-> name, value |-> <<>>,
     checked |-> FALSE, opcoes |-> opcoes]

Textarea(name, text) ==
    [tag |-> "textarea", type |-> "", name |-> name, value |-> text,
     checked |-> FALSE, opcoes |-> <<>>]

\* a row tr[id^='P']: whether it has the record link, the number the link
\* shows ("" when the number pattern does not match), the id_procedimento
\* of the link's URL ("" when the URL has none)
Linha(link, numero, id) == [link |-> link, numero |-> numero, id |-> id]

Tabela(caption, linhas) == [caption |-> caption, linhas |-> linhas]

-----------------------------------------------------------------------------
(* obter_paginacao_info applied to one page (specification SpecInfo).      *)

MaxLinhas == 3

PDFFora ==
    /\ chamada = "nenhuma"
    /\ processos = <<>>
    /\ opts = OpcoesPadrao(0)
    /\ settings = [save_debug_html |-> FALSE]
    /\ session = None
    /\ atraso_arg = 0
    /\ lote = LoteFora
    /\ frames = <<>>
    /\ sessoes = <<>>

\* "Lista de Processos - 1 a 20 de 45 registros"
LegendaExemplo ==
    << Palavra("Lista"), Palavra("-"), Num(<<"1">>), Palavra("a"), Num(<<"2", "0">>),
       Palavra("de"), Num(<<"4", "5">>), Palavra("registros") >>

Legendas ==
    { LegendaExemplo,
      << Num(<<"3">>), Palavra("registros") >>,
      << Palavra("-"), Num(<<"5">>), Palavra("a"), Num(<<"3">>), Palavra("de"),
         Num(<<"7">>), Palavra("registros") >>,
      << Palavra("-"), Num(<<"1">>), Palavra("a"), Num(<<"2">>) >>,
      << Palavra("-"), Num(<<"3">>), Palavra("a"), Num(<<"4">>), Palavra("de"),
         Num(<<"0">>), Palavra("registros") >>,
      << Palavra("Lista") >> }

LinhasQuaisquer(n) == [k \in 1..n |-> Linha(TRUE, "numero", str(k))]

TabelasInfo ==
    {None} \cup { Some(Tabela(c, LinhasQuaisquer(n))) :
                    c \in {None} \cup {Some(l) : l \in Legendas}, n \in 0..MaxLinhas }

\* the hidden field of a name, or nothing, for each of the given values
CamposOcultos(nome, valores) == {<<>>} \cup { <<Oculto(nome, v)>> : v \in valores }

CamposInfo ==
    { a \o b \o c :
        a \in CamposOcultos(Nome("hdn", "Recebidos", "NroItens"),
                            {<<>>, <<"x">>, <<"0">>, <<"2">>, <<"-", "1">>}),
        b \in CamposOcultos(Nome("hdn", "Recebidos", "Itens"),
                            {<<>>, <<"7", ",", "8", ",", ",", "9">>}),
        c \in CamposOcultos(Nome("hdn", "Recebidos", "PaginaAtual"),
                            {<<>>, <<"1">>, <<"x">>}) }

PaginasInfo ==
    { [ tem_form |-> TRUE, campos |-> cs,
        tabelas |-> [g \in {"Recebidos", "Gerados"} |-> IF g = "Recebidos" THEN r ELSE ge] ] :
        cs \in CamposInfo, r \in TabelasInfo,
        ge \in {None, Some(Tabela(Some(LegendaExemplo), LinhasQuaisquer(2)))} }

InitInfo ==
    /\ PDFFora
    /\ arvore = ArvoreFora
    /\ AvulsasFora
    /\ \E pg \in PaginasInfo : listagem = [pc |-> "html", pagina |-> pg, info |-> None]

ObterInfo ==
    /\ listagem.pc = "html"
    /\ listagem' = [listagem EXCEPT !.pc = "info",
                                    !.info = Some(obter_paginacao_info(listagem.pagina))]
    /\ UNCHANGED <<varsPDF, arvore, avulsas>>

NextInfo == ObterInfo

SpecInfo == InitInfo /\ [][NextInfo]_vars

\* what the caption of a category shows, read without the fallbacks
LegendaDe(pagina, g) ==
    IF pagina.tabelas[g] # None /\ pagina.tabelas[g][1].caption # None
    THEN pagina.tabelas[g][1].caption[1] ELSE <<>>

TamanhoIntervalo(pagina, g) ==
    LET c == LegendaDe(pagina, g)
        k == CasaIntervalo(c)
    IN  IF k = 0 THEN 0 ELSE ValorDe(c[k + 3].n) - ValorDe(c[k + 1].n) + 1

TotalLegenda(pagina, g) ==
    LET c == LegendaDe(pagina, g)
        k == CasaTotal(c)
    IN  IF k = 0 THEN 0 ELSE ValorDe(c[k].n)

NumLinhas(pagina, g) ==
    IF pagina.tabelas[g] = None THEN 0 ELSE Len(pagina.tabelas[g][1].linhas)

NroItensOculto(pagina, g) ==
    LET v == ValorOculto(pagina, Nome("hdn", g, "NroItens")) IN
    IF v # None /\ int(v[1]) # None THEN int(v[1])[1] ELSE 0

\* total_paginas = max(1, ceil(total_registros / itens_por_pagina)), said
\* without the division
PaginasCobrem(i) ==
    /\ i.total_paginas >= 1
    /\ i.total_registros = 0 => i.total_paginas = 1
    /\ i.total_registros > 0 =>
          /\ (i.total_paginas - 1) * i.itens_por_pagina < i.total_registros
          /\ i.total_registros <= i.total_paginas * i.itens_por_pagina

\* C11 as stated: items-per-page is the caption range size, else the row
\* count or the total count (1 when there is nothing to count), never zero;
\* total pages is max(1, ceil(total / items-per-page)); the example caption
\* gives 20 and 3.
C11_ItensDaLegenda ==
    listagem.pc = "info" =>
        \A g \in {"Recebidos", "Gerados"} :
            LET i == listagem.info[1][g]
                pg == listagem.pagina
            IN  /\ i.itens_por_pagina >= 1
                /\ TamanhoIntervalo(pg, g) > 0 => i.itens_por_pagina = TamanhoIntervalo(pg, g)
                /\ TamanhoIntervalo(pg, g) <= 0 =>
                      i.itens_por_pagina \in {NumLinhas(pg, g), i.total_registros, 1}
                /\ PaginasCobrem(i)
                /\ LegendaDe(pg, g) = LegendaExemplo =>
                      (i.itens_por_pagina = 20 /\ i.total_paginas = 3)

\* the first positive number of a list, 1 when there is none
RECURSIVE PrimeiroPositivo(_)
PrimeiroPositivo(ns) ==
    IF ns = <<>> THEN 1
    ELSE IF Head(ns) > 0 THEN Head(ns) ELSE PrimeiroPositivo(Tail(ns))

\* C11 (amended): items-per-page is the first positive number among the
\* caption range size, the caption's total, the row count, the integer in
\* the hidden items-per-page field and the total record count, and 1 when
\* none is positive; total pages is max(1, ceil(total / items-per-page)); the
\* example caption gives 20 and 3.
C11_ItensPorPagina ==
    listagem.pc = "info" =>
        \A g \in {"Recebidos", "Gerados"} :
            LET i == listagem.info[1][g]
                pg == listagem.pagina
            IN  /\ i.itens_por_pagina >= 1
                /\ i.itens_por_pagina =
                      PrimeiroPositivo(<< TamanhoIntervalo(pg, g), TotalLegenda(pg, g),
                                          NumLinhas(pg, g), NroItensOculto(pg, g),
                                          i.total_registros >>)
                /\ PaginasCobrem(i)
                /\ LegendaDe(pg, g) = LegendaExemplo =>
                      (i.itens_por_pagina = 20 /\ i.total_paginas = 3)

C11_Witness ==
    /\ listagem.pc = "info"
    /\ listagem.info[1]["Gerados"].itens_por_pagina = 20
    /\ listagem.info[1]["Gerados"].total_paginas = 3
    /\ TamanhoIntervalo(listagem.pagina, "Recebidos") <= 0
    /\ NumLinhas(listagem.pagina, "Recebidos") = 0
    /\ NroItensOculto(listagem.pagina, "Recebidos") = 2
    /\ listagem.info[1]["Recebidos"].itens_por_pagina = 2
    /\ listagem.info[1]["Recebidos"].total_registros = 3

-----------------------------------------------------------------------------
(* Form serialization (dom.py) and the page-advance request.               *)

Ultimo(S) == CHOOSE k \in S : \A j \in S : j <= k

\* text.strip()
Strip(s) ==
    LET P == {k \in 1..Len(s) : s[k] # " "} IN
    IF P = {} THEN <<>> ELSE SubSeq(s, Primeiro(P), Ultimo(P))

\* type.lower(), for the types the pages use
Minusculas(t) == IF t = "RADIO" THEN "radio" ELSE IF t = "CHECKBOX" THEN "checkbox" ELSE t

\* serializar_formulario: inputs, then selects, then textareas (a later
\* source replaces an earlier value), then the first radio of every radio
\* group that sent nothing; the result maps field names to texts
serializar_formulario(els) ==
    LET K == DOMAIN els
        nomeado(k) == els[k].name # <<>>
        conta(k) == /\ els[k].tag = "input" /\ nomeado(k)
                    /\ Minusculas(els[k].type) \in {"radio", "checkbox"} => els[k].checked
        sel(k) == els[k].tag = "select" /\ nomeado(k)
        ta(k) == els[k].tag = "textarea" /\ nomeado(k)
        radio(k) == els[k].tag = "input" /\ nomeado(k) /\ els[k].type = "radio"
        escolhida(ops) ==
            LET m == {j \in DOMAIN ops : ops[j].selected} IN
            IF m # {} THEN ops[Primeiro(m)].value
            ELSE IF ops # <<>> THEN ops[1].value ELSE <<>>
        valor(n) ==
            LET T == {k \in K : ta(k) /\ els[k].name = n}
                S == {k \in K : sel(k) /\ els[k].name = n}
                I == {k \in K : conta(k) /\ els[k].name = n}
                R == {k \in K : radio(k) /\ els[k].name = n}
            IN  IF T # {} THEN Strip(els[Ultimo(T)].value)
                ELSE IF S # {} THEN escolhida(els[Ultimo(S)].opcoes)
                ELSE IF I # {} THEN els[Ultimo(I)].value
                ELSE els[Primeiro(R)].value
    IN  [n \in {els[k].name : k \in {j \in K : conta(j) \/ sel(j) \/ ta(j) \/ radio(j)}}
            |-> valor(n)]

\* the page-selector fields of a category
CamposDePagina(grupo) ==
    { Nome("sel", grupo, "PaginacaoSuperior"), Nome("sel", grupo, "PaginacaoInferior"),
      Nome("hdn", grupo, "PaginaAtual") }

\* mutant: the page fields of both categories are set
CamposDePaginaDeTodos(grupo) == CamposDePagina("Recebidos") \cup CamposDePagina("Gerados")

\* data[select_superior] = alvo, ... for the fields present in data
CamposSobrepostos(grupo) == CamposDePagina(grupo)

MsgSemFormControle == "Formulario de controle nao encontrado para paginacao."
MsgPaginacaoIndisponivel == "Paginacao indisponivel"
MsgRedeControle == "erro de rede ao paginar"

\* submeter_paginacao up to the request: the error raised, or the data to post
montar_paginacao(pagina, grupo, pagina_destino) ==
    IF ~pagina.tem_form THEN [erro |-> Some(MsgSemFormControle), data |-> <<>>]
    ELSE LET data == serializar_formulario(pagina.campos)
             alvo == str(pagina_destino)
         IN  IF Nome("hdn", grupo, "PaginaAtual") \in DOMAIN data
             THEN [ erro |-> None,
                    data |-> [n \in DOMAIN data |->
                                IF n \in CamposSobrepostos(grupo) THEN alvo ELSE data[n]] ]
             ELSE [erro |-> Some(MsgPaginacaoIndisponivel), data |-> <<>>]

-----------------------------------------------------------------------------
(* Record extraction, accumulation and page limits.                        *)

ChaveDe(p) == IF p.id # "" THEN p.id ELSE p.numero

\* mutant: every new record is appended
AnexarTodos(destino, novos, vistos) == destino \o novos

\* the loop of _adicionar_processos: append the records whose key is new
RECURSIVE AnexarIneditos(_, _, _)
AnexarIneditos(destino, novos, vistos) ==
    IF novos = <<>> THEN destino
    ELSE LET chave == ChaveDe(Head(novos)) IN
         IF chave # "" /\ chave \notin vistos
         THEN AnexarIneditos(Append(destino, Head(novos)), Tail(novos), vistos \cup {chave})
         ELSE AnexarIneditos(destino, Tail(novos), vistos)

adicionar_processos(destino, novos) ==
    AnexarIneditos(destino, novos, {ChaveDe(destino[k]) : k \in DOMAIN destino})

\* extrair_processo_da_linha returned a record, and it has an id_procedimento
LinhaValida(l) == l.link /\ l.numero # "" /\ l.id # ""

\* the rows of a category's table as records of that category
ProcessosDaTabela(pagina, grupo) ==
    IF pagina.tabelas[grupo] = None THEN <<>>
    ELSE LET ls == SelectSeq(pagina.tabelas[grupo][1].linhas, LinhaValida)
         IN  [k \in DOMAIN ls |-> [id |-> ls[k].id, numero |-> ls[k].numero,
                                   categoria |-> grupo]]

extrair_processos(pagina) ==
    AnexarIneditos(<<>>,
                   ProcessosDaTabela(pagina, "Recebidos") \o ProcessosDaTabela(pagina, "Gerados"),
                   {})

\* PaginationOptions.limite_para; a limit that is None or 0 is not appended
limite_para(paginacao, grupo, total_paginas) ==
    LET posto(v) == v # None /\ v[1] # 0
        limites == (IF posto(paginacao.max_paginas_total)
                    THEN {paginacao.max_paginas_total[1]} ELSE {})
                   \cup (IF grupo = "Recebidos" /\ posto(paginacao.max_paginas_recebidos)
                         THEN {paginacao.max_paginas_recebidos[1]} ELSE {})
                   \cup (IF grupo = "Gerados" /\ posto(paginacao.max_paginas_gerados)
                         THEN {paginacao.max_paginas_gerados[1]} ELSE {})
    IN  IF limites = {} THEN total_paginas
        ELSE LET limite == CHOOSE v \in limites : \A w \in limites : v <= w IN
             IF limite < 1 THEN 1 ELSE Min(total_paginas, limite)

-----------------------------------------------------------------------------
(* coletar_processos_com_paginacao (specification SpecColeta).  The portal *)
(* answers every page-advance request with a page of its choice or with a  *)
(* network error.                                                          *)

MaxPaginas == 3

OpcoesDePagina == <<Opcao(<<"0">>, TRUE), Opcao(<<"1">>, FALSE), Opcao(<<"2">>, FALSE)>>

\* the controls of #frmProcedimentoControlar: common fields, then for every
\* category in `selects` the two page selectors and for every category in
\* `ocultos` the hidden current-page field
FormControle(token, ocultos, selects, atual) ==
    LET doGrupo(g) ==
            (IF g \in selects
             THEN << Select(Nome("sel", g, "PaginacaoSuperior"), OpcoesDePagina),
                     Select(Nome("sel", g, "PaginacaoInferior"), OpcoesDePagina) >>
             ELSE <<>>)
            \o (IF g \in ocultos
                THEN <<Oculto(Nome("hdn", g, "PaginaAtual"),
                              IF g = "Recebidos" THEN atual ELSE <<"0">>)>>
                ELSE <<>>)
    IN  << Oculto(Nome("hdn", "", "InfraToken"), token),
           Input("text", Nome("txt", "", "Pesquisa"), <<"s", "e", "i">>, FALSE),
           Input("checkbox", Nome("chk", "", "Todos"), <<"S">>, FALSE),
           Input("radio", Nome("rdo", "", "Ordem"), <<"A">>, FALSE),
           Input("radio", Nome("rdo", "", "Ordem"), <<"D">>, FALSE),
           Textarea(Nome("txa", "", "Nota"), <<" ", "x", " ">>),
           Input("submit", <<>>, <<"o", "k">>, FALSE) >>
        \o doGrupo("Recebidos") \o doGrupo("Gerados")

\* "- 1 a 1 de n registros": one row per page, n pages
LegendaPaginas(n) ==
    << Palavra("-"), Num(<<"1">>), Palavra("a"), Num(<<"1">>), Palavra("de"),
       Num(str(n)), Palavra("registros") >>

AmbosGrupos == {"Recebidos", "Gerados"}

FormasIniciais ==
    { [tem_form |-> TRUE, ocultos |-> AmbosGrupos, selects |-> AmbosGrupos],
      [tem_form |-> TRUE, ocultos |-> {"Recebidos"}, selects |-> AmbosGrupos],
      [tem_form |-> TRUE, ocultos |-> AmbosGrupos, selects |-> {"Gerados"}],
      [tem_form |-> FALSE, ocultos |-> AmbosGrupos, selects |-> AmbosGrupos] }

TabelasIniciais(linhas) ==
    {None} \cup { Some(Tabela(Some(LegendaPaginas(n)), linhas)) : n \in {1, MaxPaginas} }

PaginasIniciais ==
    { [ tem_form |-> f.tem_form,
        campos |-> FormControle(<<"0">>, f.ocultos, f.selects, atual),
        tabelas |-> [g \in AmbosGrupos |-> IF g = "Recebidos" THEN r ELSE ge] ] :
        f \in FormasIniciais, atual \in {<<"0">>, <<"1">>},
        r \in TabelasIniciais(<<Linha(TRUE, "n1", "a")>>),
        ge \in TabelasIniciais(<<Linha(TRUE, "n1", "a"), Linha(TRUE, "n2", "b")>>) }

LimitesDePagina == {None, Some(0 - 1), Some(0), Some(2)}

OpcoesPaginacao ==
    { [max_paginas_recebidos |-> r, max_paginas_gerados |-> g, max_paginas_total |-> t] :
        r \in {None, Some(1)}, g \in {None, Some(0)}, t \in LimitesDePagina }

\* what the portal may answer: a page with new rows, a page repeating rows
\* already seen, a page without usable rows and without the hidden field
RespostasControle ==
    { [ocultos |-> AmbosGrupos, linhas |-> <<Linha(TRUE, "n3", "c")>>],
      [ocultos |-> AmbosGrupos,
       linhas |-> <<Linha(TRUE, "n1", "a"), Linha(TRUE, "n4", "d"), Linha(TRUE, "n4", "d")>>],
      [ocultos |-> {},
       linhas |-> <<Linha(FALSE, "n5", "e"), Linha(TRUE, "", "f"), Linha(TRUE, "n6", "")>>] }

PaginaResposta(inicial, grupo, r, token) ==
    [ tem_form |-> TRUE,
      campos |-> FormControle(token, r.ocultos, AmbosGrupos, <<"0">>),
      tabelas |-> [g \in AmbosGrupos |->
                     IF g = grupo /\ inicial.tabelas[g] # None
                     THEN Some(Tabela(inicial.tabelas[g][1].caption, r.linhas))
                     ELSE inicial.tabelas[g]] ]

\* the start of a category's loop: limite_para, html = html_inicial,
\* range(pagina_atual + 1, limite); after the last category, the return
EntrarGrupo(l, k) ==
    IF k > Len(Grupos) THEN [l EXCEPT !.pc = "retornou"]
    ELSE LET i == l.info[Grupos[k]] IN
         [l EXCEPT !.pc = "laco", !.g = k, !.html = l.inicial,
                   !.limite = limite_para(l.opcoes, Grupos[k], i.total_paginas),
                   !.pagina = i.pagina_atual + 1]

\* _adicionar_processos(processos, extrair_processos(settings, html)), with
\* the ghost trail of what was fed
Acumular(l, pagina) ==
    [l EXCEPT !.processos = adicionar_processos(@, extrair_processos(pagina)),
              !.brutos = @ \o extrair_processos(pagina),
              !.paginas = @ \cup {pagina}]

InitColeta ==
    /\ PDFFora
    /\ arvore = ArvoreFora
    /\ AvulsasFora
    /\ \E pg \in PaginasIniciais, o \in OpcoesPaginacao :
          listagem = [ pc |-> "inicio", opcoes |-> o, inicial |-> pg, html |-> pg,
                       info |-> obter_paginacao_info(pg), g |-> 0, pagina |-> 0,
                       limite |-> 0, processos |-> <<>>, erro |-> None,
                       pedidos |-> <<>>, brutos |-> <<>>, paginas |-> {} ]

\* lines 336-340: the initial page
ColetaIniciar ==
    /\ listagem.pc = "inicio"
    /\ listagem' = EntrarGrupo(Acumular(listagem, listagem.inicial), 1)
    /\ UNCHANGED <<varsPDF, arvore, avulsas>>

\* one iteration of a category's loop: submeter_paginacao, then the records
\* of the answer are accumulated; an exception leaves the collection
SubmeterPaginacao ==
    /\ listagem.pc = "laco"
    /\ listagem.pagina < listagem.limite
    /\ LET grupo == Grupos[listagem.g]
           m == montar_paginacao(listagem.html, grupo, listagem.pagina)
           pedido == [grupo |-> grupo, destino |-> listagem.pagina,
                      origem |-> listagem.html, data |-> m.data, resposta |-> None]
       IN  IF m.erro # None
           THEN listagem' = [listagem EXCEPT !.pc = "propagou", !.erro = m.erro]
           ELSE \/ listagem' = [listagem EXCEPT !.pc = "propagou",
                                                !.erro = Some(MsgRedeControle),
                                                !.pedidos = Append(@, pedido)]
                \/ \E pg \in {listagem.html} \cup
                             { PaginaResposta(listagem.inicial, grupo, r,
                                              str(Len(listagem.pedidos) + 1)) :
                                 r \in RespostasControle } :
                      listagem' = [Acumular(listagem, pg) EXCEPT
                                      !.html = pg, !.pagina = @ + 1,
                                      !.pedidos = Append(@, [pedido EXCEPT !.resposta = Some(pg)])]
    /\ UNCHANGED <<varsPDF, arvore, avulsas>>

\* the range of a category is exhausted
ProximoGrupo ==
    /\ listagem.pc = "laco"
    /\ listagem.pagina >= listagem.limite
    /\ listagem' = EntrarGrupo(listagem, listagem.g + 1)
    /\ UNCHANGED <<varsPDF, arvore, avulsas>>

NextColeta ==
    \/ ColetaIniciar
    \/ SubmeterPaginacao
    \/ ProximoGrupo

SpecColeta == InitColeta /\ [][NextColeta]_vars

-----------------------------------------------------------------------------
(* Properties of the listing collection (specification SpecColeta).        *)

\* the page a category's next request has to be built from: the answer to
\* the category's previous request, the initial page when there is none
PaginaCorrente(k) ==
    LET antes == {j \in 1..(k - 1) : listagem.pedidos[j].grupo = listagem.pedidos[k].grupo}
    IN  IF antes = {} THEN listagem.inicial ELSE listagem.pedidos[Ultimo(antes)].resposta[1]

\* C12: every page-advance request carries the fields serialized from the
\* form of the category's most recently fetched page; the category's page
\* selectors that the form has and its hidden page index hold the target
\* page number as text; every other field, the other category's page
\* fields included, has the form's value.
C12_SoCamposDePagina ==
    \A k \in DOMAIN listagem.pedidos :
        LET p == listagem.pedidos[k]
            base == serializar_formulario(PaginaCorrente(k).campos)
        IN  /\ p.origem = PaginaCorrente(k)
            /\ DOMAIN p.data = DOMAIN base
            /\ Nome("hdn", p.grupo, "PaginaAtual") \in DOMAIN p.data
            /\ \A n \in DOMAIN base :
                  IF n \in CamposDePagina(p.grupo)
                  THEN p.data[n] = str(p.destino)
                  ELSE p.data[n] = base[n]

C12_Witness ==
    \E j, k \in DOMAIN listagem.pedidos :
        /\ j < k
        /\ listagem.pedidos[j].grupo = "Recebidos"
        /\ listagem.pedidos[j].origem # listagem.inicial
        /\ listagem.pedidos[k].grupo = "Gerados"
        /\ listagem.pedidos[k].origem = listagem.inicial
        /\ Nome("hdn", "Recebidos", "PaginaAtual") \in DOMAIN listagem.pedidos[k].data
        /\ listagem.pedidos[k].data[Nome("hdn", "Gerados", "PaginaAtual")] = <<"1">>

\* C13 as stated: a page advance that fails for the missing hidden
\* current-page field sends no request and does not end the collection: the
\* records collected so far and the other category's pages are returned.
C13_FalhaSoDaCategoria ==
    listagem.erro = Some(MsgPaginacaoIndisponivel) =>
        /\ \A k \in DOMAIN listagem.pedidos :
              Nome("hdn", listagem.pedidos[k].grupo, "PaginaAtual")
                  \in DOMAIN listagem.pedidos[k].data
        /\ listagem.pc # "propagou"

\* the requests sent for a category
PedidosDe(g) == {k \in DOMAIN listagem.pedidos : listagem.pedidos[k].grupo = g}

\* C14 as stated: a category's visited pages, the initial one included, are
\* at most min(total pages, ceiling), the ceiling being the smallest
\* configured limit that applies, one below 1 counting as 1; the targets
\* increase strictly and stay below the bound.
C14_LimiteDePaginas ==
    listagem.pc # "inicio" =>
        \A g \in AmbosGrupos :
            LET o == listagem.opcoes
                tetos == {v[1] : v \in ({o.max_paginas_total} \cup
                                        (IF g = "Recebidos" THEN {o.max_paginas_recebidos}
                                         ELSE {o.max_paginas_gerados})) \ {None}}
                total == listagem.info[g].total_paginas
                cota == IF tetos = {} THEN total
                        ELSE Min(total, Max(1, CHOOSE v \in tetos : \A w \in tetos : v <= w))
            IN  /\ 1 + Cardinality(PedidosDe(g)) <= cota
                /\ \A j, k \in PedidosDe(g) :
                      j < k => listagem.pedidos[j].destino < listagem.pedidos[k].destino
                /\ \A k \in PedidosDe(g) : listagem.pedidos[k].destino < cota

\* the positions of the records fed so far whose identifier was not fed before
PrimeirasVezes ==
    {k \in DOMAIN listagem.brutos :
        \A j \in 1..(k - 1) : listagem.brutos[j].id # listagem.brutos[k].id}

\* C15: the accumulated list holds no identifier twice and is the sequence
\* of first occurrences, in feeding order, of the records fed; feeding a
\* page that was already processed changes nothing, and extracting twice
\* from the same page gives the same list.
C15_SemRepetidos ==
    LET ps == listagem.processos IN
    /\ \A j, k \in DOMAIN ps : ps[j].id = ps[k].id => j = k
    /\ Len(ps) = Cardinality(PrimeirasVezes)
    /\ \A i \in DOMAIN ps :
          \E k \in PrimeirasVezes :
              /\ Cardinality({j \in PrimeirasVezes : j < k}) = i - 1
              /\ ps[i] = listagem.brutos[k]
    /\ \A pg \in listagem.paginas :
          /\ adicionar_processos(ps, extrair_processos(pg)) = ps
          /\ adicionar_processos(extrair_processos(pg), extrair_processos(pg))
                = extrair_processos(pg)

C15_Witness ==
    /\ listagem.pc = "retornou"
    /\ Len(listagem.processos) >= 4
    /\ Len(listagem.brutos) > Len(listagem.processos)
    /\ \E k \in DOMAIN listagem.pedidos :
          listagem.pedidos[k].resposta = Some(listagem.pedidos[k].origem)

\* ---------------------------------------------------------------------
\* document tree (documents.py): parse_documentos_do_iframe
\*
\* A text is a sequence of tokens: words, "NL" (a line break), "\\n" (the
\* two characters backslash and n), quotes, "alert(" and ")", and markup
\* tokens that start with "<".  The three regular expressions of the parser
\* scan the script independently, so a script is three lists of statements:
\* node declarations Nos[i] = new infraArvoreNo(...), assignments
\* Nos[i].prop = value and action declarations NosAcoes[i] = new
\* infraArvoreAcao(...).  A JavaScript literal is null, a quoted string or
\* something ast.literal_eval rejects.
\* ---------------------------------------------------------------------

MaxDeclaracoes == 3

Nulo == [q |-> "null", c |-> <<>>]
Str(c) == [q |-> "str", c |-> c]
Ilegivel == [q |-> "erro", c |-> <<>>]

\* the escapes ast.literal_eval decodes inside a quoted string
literal_eval(c) ==
    [k \in DOMAIN c |->
        IF c[k] = "\\n" THEN "NL"
        ELSE IF c[k] = "\\\\n" THEN "\\n"
        ELSE c[k]]

\* _parse_infra_args: the decoded arguments, or the empty list when the
\* argument text does not evaluate
parse_infra_args(args) ==
    IF \E k \in DOMAIN args : args[k].q = "erro" THEN <<>>
    ELSE [k \in DOMAIN args |->
            IF args[k].q = "null" THEN None ELSE Some(literal_eval(args[k].c))]

\* _convert_js_literal on a quoted string, null or a bare word
convert_js_literal(v) ==
    IF v.q = "null" THEN None
    ELSE IF v.q = "str" THEN Some(literal_eval(v.c))
    ELSE Some(v.c)

\* args[k] if len(args) > k else None, with Python's zero-based k
Arg(args, k) == IF Len(args) > k THEN args[k + 1] ELSE None

\* value or default, for an optional text
Ou(v, d) == IF v = None \/ v = Some(<<>>) THEN d ELSE v[1]

\* str.upper() and str.lower() on a token
upper(t) ==
    IF t \in {"documento", "Documento"} THEN "DOCUMENTO"
    ELSE IF t = "assinatura" THEN "ASSINATURA"
    ELSE IF t = "nivel_acesso" THEN "NIVEL_ACESSO"
    ELSE t

lower(t) ==
    IF t \in {"Assinado por", "ASSINADO POR"} THEN "assinado por"
    ELSE IF t = "noVisitado" THEN "novisitado"
    ELSE IF t = "Sigilo" THEN "sigilo"
    ELSE t

\* needle in text.upper() / needle in text.lower()
ContemMaiusculo(texto, palavra) == \E k \in DOMAIN texto : upper(texto[k]) = palavra
ContemMinusculo(texto, palavra) == \E k \in DOMAIN texto : lower(texto[k]) = palavra

\* absolute_to_sei: an absolute address is kept, a relative one loses its
\* leading slashes and is joined to the base address
absolute_to_sei(href) ==
    IF href # <<>> /\ href[1] = "http" THEN href
    ELSE LET P == {k \in DOMAIN href : href[k] # "/"} IN
         <<"http", "base/sei/">> \o
            (IF P = {} THEN <<>> ELSE SubSeq(href, Primeiro(P), Len(href)))

\* _append_unique
append_unique(target, value) ==
    IF value # <<>> /\ \A k \in DOMAIN target : target[k] # value
    THEN Append(target, value) ELSE target

RECURSIVE AnexarUnicos(_, _)
AnexarUnicos(target, nomes) ==
    IF nomes = <<>> THEN target
    ELSE AnexarUnicos(append_unique(target, Head(nomes)), Tail(nomes))

\* _extract_alert_text: the content of the first alert('...') or
\* alert("...") of the fragment, with the escapes \n replaced
EhAspas(t) == t \in {"'", "\""}

extract_alert_text(js_code) ==
    IF js_code = None \/ js_code = Some(<<>>) THEN None
    ELSE LET js == js_code[1]
             Fecha(k) == {m \in (k + 2)..(Len(js) - 1) : js[m] = js[k + 1] /\ js[m + 1] = ")"}
             Abre == {k \in 1..(Len(js) - 1) :
                        js[k] = "alert(" /\ EhAspas(js[k + 1]) /\ Fecha(k) # {}}
         IN  IF Abre = {} THEN None
             ELSE LET k == Primeiro(Abre)
                      content == SubSeq(js, k + 2, Primeiro(Fecha(k)) - 1)
                  IN  Some([j \in DOMAIN content |->
                              IF content[j] = "\\n" THEN "NL" ELSE content[j]])

\* str.splitlines()
RECURSIVE splitlines(_)
splitlines(t) ==
    IF t = <<>> THEN <<>>
    ELSE LET P == {k \in DOMAIN t : t[k] = "NL"} IN
         IF P = {} THEN <<t>>
         ELSE <<SubSeq(t, 1, Primeiro(P) - 1)>> \o
              splitlines(SubSeq(t, Primeiro(P) + 1, Len(t)))

EhCabecalho(linha) == linha # <<>> /\ lower(linha[1]) = "assinado por"

\* the loop over the blocks that blank lines separate: inside a block a
\* leading "assinado por" line is dropped and the first line left is a name
RECURSIVE NomesDosBlocos(_, _, _)
NomesDosBlocos(linhas, nomes, estado) ==
    IF linhas = <<>> THEN nomes
    ELSE LET l == Head(linhas) IN
         IF l = <<>> THEN NomesDosBlocos(Tail(linhas), nomes, "inicio")
         ELSE IF estado = "inicio" /\ EhCabecalho(l)
              THEN NomesDosBlocos(Tail(linhas), nomes, "cabecalho")
         ELSE IF estado \in {"inicio", "cabecalho"}
              THEN NomesDosBlocos(Tail(linhas), append_unique(nomes, l), "nome")
         ELSE NomesDosBlocos(Tail(linhas), nomes, "nome")

\* _extract_assinatura_nomes
extract_assinatura_nomes(alert_text) ==
    LET P == {k \in DOMAIN alert_text : alert_text[k] # "NL"}
        texto == IF P = {} THEN <<>> ELSE SubSeq(alert_text, Primeiro(P), Ultimo(P))
        nomes == NomesDosBlocos(splitlines(texto), <<>>, "inicio")
        cheias == SelectSeq(splitlines(texto), LAMBDA l : l # <<>>)
    IN  IF texto = <<>> THEN <<>>
        ELSE IF nomes = <<>> /\ EhCabecalho(<<texto[1]>>) /\ Len(cheias) > 1
             THEN append_unique(nomes, cheias[2])
        ELSE nomes

\* BeautifulSoup(value).get_text(): the tokens that are not markup
EhMarcacao(t) == t \in {"<b>", "</b>", "<a href='", "'>", "</a>"}
get_text(html) == SelectSeq(html, LAMBDA t : ~EhMarcacao(t))

\* _extract_first_href
extract_first_href(html) ==
    LET A == {k \in DOMAIN html : html[k] = "<a href='" /\
                                   \E m \in (k + 1)..Len(html) : html[m] = "'>"}
    IN  IF A = {} THEN None
        ELSE LET k == Primeiro(A)
                 m == Primeiro({j \in (k + 1)..Len(html) : html[j] = "'>"})
             IN  Some(SubSeq(html, k + 1, m - 1))

\* dict.setdefault(chave, valor) and dict[chave] = valor
setdefault(d, chave, valor) == IF chave \in DOMAIN d THEN d ELSE d @@ (chave :> valor)
atribuir(d, chave, valor) == (chave :> valor) @@ d

\* "DOCUMENTO" in tipo_no.upper()
eh_documento(tipo_no) == ContemMaiusculo(tipo_no, "DOCUMENTO")

\* a declaration is retained with at least 7 arguments and a document type
retida(args) == Len(args) >= 7 /\ args[1] # None /\ args[1] # Some(<<>>) /\ eh_documento(args[1][1])

\* extrair_hash_da_url is imported inside parse_documentos_do_iframe, after
\* the three loops, which makes the name local to the whole function: the
\* call in the declaration loop, made when href is not empty, finds it
\* unbound
ErroNomeLocal == "UnboundLocalError: extrair_hash_da_url"
chama_extrair_hash(args) == Ou(args[4], <<>>) # <<>>

\* the Documento built from a retained declaration that has no href (url
\* and hash stay None); of its metadata the entries ordem, icone and
\* classe_css are kept
novo_documento(idx, args) ==
    LET id_documento == Ou(args[2], <<>>)
        icon_path == Ou(Arg(args, 7), <<>>)
        classe_css == Ou(Arg(args, 14), <<>>)
    IN  [id_documento |-> id_documento,
         titulo |-> Ou(args[7], Ou(args[6], id_documento)),
         tipo |-> args[1][1],
         download_url |-> None,
         visualizacao_url |-> None,
         assinantes |-> <<>>,
         eh_sigiloso |-> ContemMinusculo(icon_path, "sigilo"),
         possui_assinaturas |-> FALSE,
         eh_novo |-> ContemMinusculo(classe_css, "novisitado"),
         metadados |-> (IF icon_path # <<>> THEN ("icone" :> icon_path) ELSE <<>>) @@
                       (IF classe_css # <<>> THEN ("classe_css" :> classe_css) ELSE <<>>) @@
                       ("ordem" :> idx)]

\* documentos_por_id: the slot of the node each non-empty identifier names;
\* the dictionary is walked in insertion order, so of two nodes with one
\* identifier the one whose slot was inserted last wins
documentos_por_id(docs, insercao) ==
    LET ids == {docs[k].id_documento : k \in DOMAIN docs} \ {<<>>} IN
    [id \in ids |->
        insercao[Ultimo({n \in DOMAIN insercao : docs[insercao[n]].id_documento = id})]]

\* documentos_por_indice.get(idx), answering the first node when the slot
\* has none
no_da_mutacao_ou_primeiro(docs, idx) ==
    IF idx \in DOMAIN docs THEN Some(idx) ELSE Some(Primeiro(DOMAIN docs))

\* documentos_por_indice.get(idx)
no_da_mutacao(docs, idx) == IF idx \in DOMAIN docs THEN Some(idx) ELSE None

\* the body of the assignment loop for one node
aplicar_mutacao(doc, prop, parsed_value) ==
    LET valor == Ou(parsed_value, <<>>) IN
    IF valor = <<>> THEN doc
    ELSE IF prop = "assinatura" THEN
        LET assinatura_text == get_text(valor) IN
        IF assinatura_text = <<>> THEN doc
        ELSE [doc EXCEPT !.possui_assinaturas = TRUE,
                         !.assinantes = <<assinatura_text>>,
                         !.metadados = atribuir(@, "assinatura_texto", assinatura_text)]
    ELSE IF prop = "src" THEN
        LET comum == [doc EXCEPT !.metadados = setdefault(@, "src_original", valor)] IN
        IF ContemMinusculo(valor, "documento_visualizar")
        THEN [comum EXCEPT !.visualizacao_url = Some(absolute_to_sei(valor))]
        ELSE [comum EXCEPT !.download_url = Some(absolute_to_sei(valor))]
    ELSE
        LET href == extract_first_href(valor)
            com_html == [doc EXCEPT !.metadados = atribuir(@, "html_fragmento", valor)]
        IN  IF Ou(href, <<>>) = <<>> THEN com_html
            ELSE [com_html EXCEPT !.visualizacao_url = Some(absolute_to_sei(href[1]))]

\* list.append on an entry of the metadata that starts empty
anexar_em(d, chave, valor) ==
    IF chave \in DOMAIN d THEN [d EXCEPT ![chave] = Append(@, valor)]
    ELSE d @@ (chave :> <<valor>>)

\* the documents in ascending slot order
ordenados(docs) ==
    LET S == DOMAIN docs IN
    [n \in 1..Cardinality(S) |->
        docs[CHOOSE k \in S : Cardinality({j \in S : j < k}) = n - 1]]

\* ---- the scripts and Records the parser is run on ----

IdsDeDocumento == <<"DOC-001", "DOC-002", "DOC-003", "DOC-004", "DOC-005">>
IdDoc(k) == <<IdsDeDocumento[k]>>
IdProcesso == <<"PROC-001">>

Vazio == Str(<<>>)
EnderecoVisualizar == <<"/", "sei/controlador.php?acao=", "documento_visualizar">>
EnderecoAnexo == <<"/", "sei/controlador.php?acao=", "documento_download_anexo">>
IconePdf == <<"/sei/img/", "documento_pdf", ".svg">>
IconeSigilo == <<"/sei/img/", "sigilo", ".svg">>

\* the shapes of a node declaration: the 16 arguments of the portal, the
\* same with an empty address, 7 arguments with a lower-case type (always
\* naming the first identifier, so that two declarations can name one
\* document), 6 arguments, and a folder
NoDocumento(k) ==
    <<Str(<<"DOCUMENTO">>), Str(IdDoc(k)), Str(<<"ROOT">>), Str(EnderecoVisualizar),
      Str(<<"ifrVisualizar">>), Vazio, Str(<<"Oficio de Teste">>), Str(IconePdf),
      Vazio, Vazio, Vazio, Vazio, Vazio, Vazio,
      IF k = 1 THEN Str(<<"noVisitado">>) ELSE Vazio, Str(<<"0001">>)>>
NoSemEndereco(k) == [NoDocumento(k) EXCEPT ![4] = Vazio]
NoSeteArgumentos(k) ==
    <<Str(<<"documento">>), Str(IdDoc(1)), Nulo, Nulo, Nulo, Str(<<"Anexo">>), Nulo>>
NoCurto(k) == SubSeq(NoDocumento(k), 1, 6)
NoPasta(k) == [NoDocumento(k) EXCEPT ![1] = Str(<<"PASTA">>)]
FormasDeNo == {"documento", "sem_endereco", "sete", "curto", "pasta"}
ArgsDoNo(forma, k) ==
    IF forma = "documento" THEN NoDocumento(k)
    ELSE IF forma = "sem_endereco" THEN NoSemEndereco(k)
    ELSE IF forma = "sete" THEN NoSeteArgumentos(k)
    ELSE IF forma = "curto" THEN NoCurto(k)
    ELSE NoPasta(k)

\* the slots of n declarations: ascending, descending, or sharing slots
SlotDe(ordem, n, k) ==
    IF ordem = "crescente" THEN k - 1
    ELSE IF ordem = "decrescente" THEN n - k
    ELSE (k - 1) \div 2

DeclaracoesDeNos ==
    UNION {{[k \in 1..n |-> [index |-> SlotDe(ordem, n, k), args |-> ArgsDoNo(formas[k], k)]] :
                formas \in [1..n -> FormasDeNo],
                ordem \in {"crescente", "decrescente", "repetido"}} :
           n \in 0..MaxDeclaracoes}

Atribuicao(index, prop, value) == [index |-> index, prop |-> prop, value |-> value]
Atribuicoes ==
    { <<>>,
      <<Atribuicao(0, "src", Str(EnderecoAnexo)),
        Atribuicao(0, "html", Str(<<"<a href='">> \o EnderecoVisualizar \o <<"'>", "Visualizar", "</a>">>)),
        Atribuicao(1, "src", Str(EnderecoAnexo))>>,
      <<Atribuicao(1, "assinatura", Str(<<"<b>", "Fulano de Tal", "</b>">>)),
        Atribuicao(0, "src", Str(EnderecoVisualizar))>>,
      <<Atribuicao(MaxDeclaracoes, "src", Str(EnderecoAnexo)),
        Atribuicao(MaxDeclaracoes, "assinatura", Str(<<"Fulano de Tal">>)),
        Atribuicao(1, "html", Str(<<"Visualizar">>))>>,
      <<Atribuicao(0, "title", Str(<<"Oficio">>)),
        Atribuicao(0, "src", Vazio),
        Atribuicao(1, "html", Nulo)>> }

AlertaDe(texto) == Str(<<"alert(", "'">> \o texto \o <<"'", ")">>)
TextoAssinatura == <<"Assinado por", "\\n", "Fulano de Tal">>
TextoDoisNomes ==
    <<"Assinado por", "\\n", "Fulano de Tal", "\\n", "\\n",
      "ASSINADO POR", "\\n", "Beltrano", "\\n", "\\n", "Fulano de Tal">>
TextoEscapado == <<"Assinado por", "\\\\n", "Fulano de Tal">>
TextoRestrito == <<"Acesso Restrito">>

\* an action as the test fixture writes it, and as the scan's positions
\* expect it
AcaoComoNoTeste(tipo, alvo, js, icone) ==
    <<Str(<<tipo>>), Str(alvo), js, Nulo, Nulo, Nulo, icone>>
AcaoPorPosicao(tipo, alvo, js, icone) ==
    <<Str(<<tipo>>), Nulo, Str(alvo), js, Nulo, Nulo, icone>>

Acoes ==
    { <<>>,
      <<AcaoComoNoTeste("ASSINATURA", IdDoc(1), AlertaDe(TextoAssinatura), Nulo),
        AcaoComoNoTeste("NIVEL_ACESSO", IdDoc(2), AlertaDe(TextoRestrito), Str(IconeSigilo))>>,
      <<AcaoPorPosicao("ASSINATURA", IdDoc(1), AlertaDe(TextoAssinatura), Nulo),
        AcaoPorPosicao("NIVEL_ACESSO", IdDoc(2), AlertaDe(TextoRestrito), Str(IconeSigilo))>>,
      <<AcaoPorPosicao("assinatura", IdDoc(1), AlertaDe(TextoDoisNomes), Nulo),
        AcaoPorPosicao("ASSINATURA", IdDoc(1), AlertaDe(TextoEscapado), Nulo)>>,
      <<AcaoPorPosicao("ASSINATURA", IdProcesso, AlertaDe(TextoDoisNomes), Nulo),
        AcaoPorPosicao("NIVEL_ACESSO", IdProcesso, AlertaDe(TextoRestrito), Str(IconeSigilo))>>,
      <<AcaoComoNoTeste("ASSINATURA", IdProcesso, AlertaDe(TextoAssinatura), Nulo),
        AcaoComoNoTeste("NIVEL_ACESSO", IdProcesso, AlertaDe(TextoRestrito), Str(IconeSigilo))>>,
      <<AcaoPorPosicao("ANOTACAO", IdDoc(1), Nulo, Str(IconePdf)),
        <<Str(<<"ASSINATURA">>), Ilegivel>>,
        AcaoPorPosicao("NIVEL_ACESSO", IdDoc(1), Str(<<"abrir(", ")">>), Nulo)>> }

Scripts == [nos : DeclaracoesDeNos, atribs : Atribuicoes, acoes : Acoes]

\* the Record passed as processo, or none
RegistrosIniciais ==
    {None, Some([id_procedimento |-> IdProcesso, eh_sigiloso |-> FALSE,
                 assinantes |-> <<>>, metadados |-> <<>>])}

InitArvore ==
    /\ PDFFora
    /\ listagem = ListagemFora
    /\ AvulsasFora
    /\ \E s \in Scripts, p \in RegistrosIniciais :
          arvore = [pc |-> "nos", script |-> s, processo |-> p, i |-> 1,
                    documentos_por_indice |-> <<>>, insercao |-> <<>>,
                    por_id |-> <<>>, processo_assinantes |-> <<>>, retorno |-> <<>>,
                    erro |-> None]

\* one turn of the loop over the node declarations; the exception of a
\* retained declaration with an address leaves the function
DeclararNo ==
    /\ arvore.pc = "nos"
    /\ arvore.i <= Len(arvore.script.nos)
    /\ LET st == arvore.script.nos[arvore.i]
           args == parse_infra_args(st.args)
           docs == arvore.documentos_por_indice
       IN  arvore' =
             IF retida(args) /\ chama_extrair_hash(args)
             THEN [arvore EXCEPT !.pc = "propagou", !.erro = Some(ErroNomeLocal)]
             ELSE IF retida(args)
             THEN [arvore EXCEPT !.i = @ + 1,
                                 !.documentos_por_indice = atribuir(docs, st.index, novo_documento(st.index, args)),
                                 !.insercao = IF st.index \in DOMAIN docs THEN @ ELSE Append(@, st.index)]
             ELSE [arvore EXCEPT !.i = @ + 1]
    /\ UNCHANGED <<varsPDF, listagem, avulsas>>

\* after the declarations: nothing retained returns the empty list at once
SemDocumentos ==
    /\ arvore.pc = "nos"
    /\ arvore.i > Len(arvore.script.nos)
    /\ DOMAIN arvore.documentos_por_indice = {}
    /\ arvore' = [arvore EXCEPT !.pc = "retornou", !.retorno = <<>>]
    /\ UNCHANGED <<varsPDF, listagem, avulsas>>

IndexarDocumentos ==
    /\ arvore.pc = "nos"
    /\ arvore.i > Len(arvore.script.nos)
    /\ DOMAIN arvore.documentos_por_indice # {}
    /\ arvore' = [arvore EXCEPT !.pc = "mutacoes", !.i = 1,
                                !.por_id = documentos_por_id(arvore.documentos_por_indice, arvore.insercao)]
    /\ UNCHANGED <<varsPDF, listagem, avulsas>>

\* one turn of the loop over the assignments
AplicarMutacao ==
    /\ arvore.pc = "mutacoes"
    /\ arvore.i <= Len(arvore.script.atribs)
    /\ LET st == arvore.script.atribs[arvore.i]
           doc == no_da_mutacao(arvore.documentos_por_indice, st.index)
       IN  arvore' =
             IF st.prop \notin {"assinatura", "src", "html"} \/ doc = None
             THEN [arvore EXCEPT !.i = @ + 1]
             ELSE [arvore EXCEPT !.i = @ + 1,
                                 !.documentos_por_indice[doc[1]] =
                                     aplicar_mutacao(@, st.prop, convert_js_literal(st.value))]
    /\ UNCHANGED <<varsPDF, listagem, avulsas>>

FimDasMutacoes ==
    /\ arvore.pc = "mutacoes"
    /\ arvore.i > Len(arvore.script.atribs)
    /\ arvore' = [arvore EXCEPT !.pc = "acoes", !.i = 1]
    /\ UNCHANGED <<varsPDF, listagem, avulsas>>

\* the signature branch of the action loop
acao_assinatura(a, alvo_doc, alvo_id, alerta) ==
    LET nomes == extract_assinatura_nomes(alerta) IN
    IF alvo_doc # None THEN
        [a EXCEPT !.documentos_por_indice[alvo_doc[1]] =
            LET com_alerta == IF alerta # <<>>
                              THEN [@ EXCEPT !.metadados = setdefault(@, "assinatura_alerta", alerta)]
                              ELSE @
            IN  IF nomes # <<>>
                THEN [com_alerta EXCEPT !.possui_assinaturas = TRUE,
                                        !.assinantes = AnexarUnicos(@, nomes)]
                ELSE com_alerta]
    ELSE IF a.processo # None /\ alvo_id # <<>> /\ alvo_id = a.processo[1].id_procedimento THEN
        [a EXCEPT !.processo[1].metadados =
                      IF alerta # <<>> THEN anexar_em(@, "assinatura_alertas", alerta) ELSE @,
                  !.processo_assinantes = AnexarUnicos(@, nomes)]
    ELSE a

\* the access-level branch of the action loop
acao_nivel_acesso(a, alvo_doc, alvo_id, alerta, icon) ==
    IF alvo_doc # None THEN
        [a EXCEPT !.documentos_por_indice[alvo_doc[1]] =
            LET sigiloso == [@ EXCEPT !.eh_sigiloso = TRUE]
                com_icone == IF icon # <<>>
                             THEN [sigiloso EXCEPT !.metadados = anexar_em(@, "acoes_icones", icon)]
                             ELSE sigiloso
            IN  IF alerta # <<>>
                THEN [com_icone EXCEPT !.metadados = setdefault(@, "nivel_acesso", alerta)]
                ELSE com_icone]
    ELSE IF a.processo # None /\ alvo_id # <<>> /\ alvo_id = a.processo[1].id_procedimento THEN
        [a EXCEPT !.processo[1].eh_sigiloso = TRUE,
                  !.processo[1].metadados =
                      IF alerta # <<>> THEN setdefault(@, "nivel_acesso", alerta) ELSE @]
    ELSE a

\* one turn of the loop over the action declarations: the type is args[0],
\* the target args[2], the script fragment args[3], the label args[5] and
\* the icon args[6]
acao(a, args) ==
    IF args = <<>> THEN a
    ELSE LET tipo_acao == [k \in DOMAIN Ou(args[1], <<>>) |-> upper(Ou(args[1], <<>>)[k])]
             alvo_id == Ou(Arg(args, 2), <<>>)
             js_code == Arg(args, 3)
             label == Ou(Arg(args, 5), <<>>)
             icon == Ou(Arg(args, 6), <<>>)
             alvo_doc == IF alvo_id \in DOMAIN a.por_id THEN Some(a.por_id[alvo_id]) ELSE None
             alerta == Ou(extract_alert_text(js_code), label)
         IN  IF tipo_acao = <<"ASSINATURA">> THEN acao_assinatura(a, alvo_doc, alvo_id, alerta)
             ELSE IF tipo_acao = <<"NIVEL_ACESSO">> THEN acao_nivel_acesso(a, alvo_doc, alvo_id, alerta, icon)
             ELSE IF alvo_doc # None /\ icon # <<>>
                  THEN [a EXCEPT !.documentos_por_indice[alvo_doc[1]].metadados =
                                     anexar_em(@, "acoes_icones", icon)]
             ELSE a

ProcessarAcao ==
    /\ arvore.pc = "acoes"
    /\ arvore.i <= Len(arvore.script.acoes)
    /\ arvore' = [acao(arvore, parse_infra_args(arvore.script.acoes[arvore.i]))
                     EXCEPT !.i = @ + 1]
    /\ UNCHANGED <<varsPDF, listagem, avulsas>>

\* after the actions: the Record takes the signer list when it is not
\* empty, and the documents are returned in slot order
Retornar ==
    /\ arvore.pc = "acoes"
    /\ arvore.i > Len(arvore.script.acoes)
    /\ arvore' = [arvore EXCEPT
                     !.pc = "retornou",
                     !.processo = IF @ # None /\ arvore.processo_assinantes # <<>>
                                  THEN Some([@[1] EXCEPT !.assinantes = arvore.processo_assinantes])
                                  ELSE @,
                     !.retorno = ordenados(arvore.documentos_por_indice)]
    /\ UNCHANGED <<varsPDF, listagem, avulsas>>

NextArvore ==
    \/ DeclararNo
    \/ SemDocumentos
    \/ IndexarDocumentos
    \/ AplicarMutacao
    \/ FimDasMutacoes
    \/ ProcessarAcao
    \/ Retornar

SpecArvore == InitArvore /\ [][NextArvore]_vars

\* ---- claims about the document tree ----

\* the call is over: the list was returned or the exception left it
Terminou == arvore.pc \in {"retornou", "propagou"}

\* the declarations of the script that write a document type with at least
\* 7 arguments, read off the statement as written
DeclaracaoDeDocumento(st) ==
    /\ Len(st.args) >= 7
    /\ \A k \in DOMAIN st.args : st.args[k].q # "erro"
    /\ st.args[1].c \in {<<"DOCUMENTO">>, <<"documento">>}
Validas == {k \in DOMAIN arvore.script.nos : DeclaracaoDeDocumento(arvore.script.nos[k])}
IdDeclarado(k) == arvore.script.nos[k].args[2].c

\* the identifiers of the document declarations no later document
\* declaration of the same slot replaces
Declarados ==
    {IdDeclarado(k) : k \in {j \in Validas :
        \A m \in Validas : arvore.script.nos[m].index = arvore.script.nos[j].index => m <= j}}

\* the returned nodes that carry an identifier
NosDe(id) == {n \in DOMAIN arvore.retorno : arvore.retorno[n].id_documento = id}

\* C16 as stated: the parser returns one node for every declaration with
\* at least 7 arguments and a document type and none for any other
\* declaration, the nodes in ascending slot order.
C16_UmNoPorDeclaracao ==
    Terminou =>
        /\ arvore.pc = "retornou"
        /\ Len(arvore.retorno) = Cardinality(Validas)
        /\ \A k \in Validas : NosDe(IdDeclarado(k)) # {}
        /\ \A n, m \in DOMAIN arvore.retorno :
              n < m => arvore.retorno[n].metadados["ordem"] < arvore.retorno[m].metadados["ordem"]

AcoesComoNoTeste(tipo) ==
    {k \in DOMAIN arvore.script.acoes :
        LET a == arvore.script.acoes[k] IN
        /\ Len(a) = 7
        /\ a[1] = Str(<<tipo>>)
        /\ a[2].q = "str" /\ a[2].c \in Declarados
        /\ a[3].q = "str"}

\* the text an alert('...') fragment shows
TextoDoAlerta(js) == Ou(extract_alert_text(Some(literal_eval(js.c))), <<>>)

\* every name occurs once in the list, and the names keep their order
UmaVezEmOrdem(nomes, lista) ==
    /\ \A j \in DOMAIN nomes : Cardinality({m \in DOMAIN lista : lista[m] = nomes[j]}) = 1
    /\ \A j, l \in DOMAIN nomes :
          j < l => \E m, n \in DOMAIN lista : m < n /\ lista[m] = nomes[j] /\ lista[n] = nomes[l]

\* C18 as stated: a signature action written as in the test fixture marks
\* its target document as signed and attaches the signer names of the alert
\* text to it, each once and in order.
C18_AssinaturaComoNoTeste ==
    Terminou =>
        \A k \in AcoesComoNoTeste("ASSINATURA") :
            LET a == arvore.script.acoes[k] IN
            /\ arvore.pc = "retornou"
            /\ NosDe(a[2].c) # {}
            /\ \A n \in NosDe(a[2].c) :
                  /\ arvore.retorno[n].possui_assinaturas
                  /\ UmaVezEmOrdem(extract_assinatura_nomes(TextoDoAlerta(a[3])),
                                   arvore.retorno[n].assinantes)

\* C19 as stated: an access-level action written as in the test fixture
\* marks its target document confidential and stores the alert text as the
\* document's access-level annotation.
C19_NivelDeAcessoComoNoTeste ==
    Terminou =>
        \A k \in AcoesComoNoTeste("NIVEL_ACESSO") :
            LET a == arvore.script.acoes[k] IN
            /\ arvore.pc = "retornou"
            /\ NosDe(a[2].c) # {}
            /\ \A n \in NosDe(a[2].c) :
                  /\ arvore.retorno[n].eh_sigiloso
                  /\ "nivel_acesso" \in DOMAIN arvore.retorno[n].metadados
                  /\ arvore.retorno[n].metadados["nivel_acesso"] = TextoDoAlerta(a[3])

\* the actions whose target, at the position the scan reads, names no
\* declared document and is the identifier of the Record
AcoesNoRegistro(tipo) ==
    {k \in DOMAIN arvore.script.acoes :
        LET a == arvore.script.acoes[k] IN
        /\ arvore.processo # None
        /\ Len(a) = 7
        /\ a[1] = Str(<<tipo>>)
        /\ a[3].q = "str"
        /\ a[3].c = arvore.processo[1].id_procedimento
        /\ \A j \in Validas : IdDeclarado(j) # a[3].c
        /\ a[4].q = "str"}

\* C20 as stated: with any number of declared documents, a signature
\* action on the Record gives the Record the signer names, each once, and
\* an access-level action on the Record marks it confidential and stores
\* the alert text as its access-level annotation.
C20_AcaoNoRegistro ==
    Terminou =>
        /\ \A k \in AcoesNoRegistro("ASSINATURA") :
              UmaVezEmOrdem(extract_assinatura_nomes(TextoDoAlerta(arvore.script.acoes[k][4])),
                            arvore.processo[1].assinantes)
        /\ \A k \in AcoesNoRegistro("NIVEL_ACESSO") :
              /\ arvore.processo[1].eh_sigiloso
              /\ "nivel_acesso" \in DOMAIN arvore.processo[1].metadados
              /\ arvore.processo[1].metadados["nivel_acesso"] =
                    TextoDoAlerta(arvore.script.acoes[k][4])

\* the signature actions whose target, at the position the scan reads, is
\* the identifier of a returned node
AssinaturasEmDocumento ==
    {k \in DOMAIN arvore.script.acoes :
        LET a == arvore.script.acoes[k] IN
        /\ Len(a) = 7
        /\ a[1].q = "str" /\ a[1].c \in {<<"ASSINATURA">>, <<"assinatura">>}
        /\ a[3].q = "str" /\ NosDe(a[3].c) # {}
        /\ a[4].q = "str"}

\* C21 as stated: with a Record supplied, every signer name a signature
\* action attached to a document of the Record is also in the Record's
\* signer list when the parse returns.
C21_AssinantesNoRegistro ==
    (arvore.pc = "retornou" /\ arvore.processo # None) =>
        \A k \in AssinaturasEmDocumento :
            LET a == arvore.script.acoes[k]
                nomes == extract_assinatura_nomes(TextoDoAlerta(a[4]))
            IN  \A n \in NosDe(a[3].c), j \in DOMAIN nomes :
                    (\E m \in DOMAIN arvore.retorno[n].assinantes :
                        arvore.retorno[n].assinantes[m] = nomes[j])
                    => \E m \in DOMAIN arvore.processo[1].assinantes :
                          arvore.processo[1].assinantes[m] = nomes[j]

\* C22 as stated: the returned list holds no identifier twice, whatever
\* the script.
C22_IdentificadorUnico ==
    arvore.pc = "retornou" =>
        \A n, m \in DOMAIN arvore.retorno :
            arvore.retorno[n].id_documento = arvore.retorno[m].id_documento => n = m

\* ---------------------------------------------------------------------
\* one call of enviar_form_gerar (pdf.py), from the chosen form to the
\* downloaded file, with the form's fields, the data sent and the pages
\* and responses of the portal kept beside the frame
\* ---------------------------------------------------------------------

NomeFlag == <<"hdnFlagGerar">>
NomeTipo == <<"rdoTipo">>
NomeBotao == <<"btnGerar">>

\* data[chave] = valor in place of data.setdefault(chave, valor)
padrao_sobrescrito(d, chave, valor) == atribuir(d, chave, valor)

\* data.setdefault(chave, valor)
padrao(d, chave, valor) == setdefault(d, chave, valor)

\* data = serializar_formulario(form); data["hdnFlagGerar"] = "1";
\* data.setdefault("rdoTipo", "T"); data.setdefault("btnGerar", "Gerar")
dados_gerar(els) ==
    padrao(padrao(atribuir(serializar_formulario(els), NomeFlag, <<"1">>),
                  NomeTipo, <<"T">>),
           NomeBotao, <<"Gerar">>)

\* the fields of the generation forms: the flag, the radio group of the
\* document selection (absent, nothing checked, one checked, or written
\* with an upper-case type), the button, a check box, and fields that stay
CamposFlag == {<<>>, <<Oculto(NomeFlag, <<"0">>)>>, <<Oculto(NomeFlag, <<"1">>)>>}
CamposTipo ==
    { <<>>,
      <<Input("radio", NomeTipo, <<"S">>, FALSE), Input("radio", NomeTipo, <<"T">>, FALSE)>>,
      <<Input("radio", NomeTipo, <<"T">>, FALSE), Input("radio", NomeTipo, <<"S">>, TRUE)>>,
      <<Input("RADIO", NomeTipo, <<"S">>, FALSE), Input("RADIO", NomeTipo, <<"T">>, FALSE)>> }
CamposBotao == {<<>>, <<Input("submit", NomeBotao, <<"Gerar PDF">>, FALSE)>>}
CamposCaixa == {<<Input("checkbox", <<"chkAnexos">>, <<"on">>, c)>> : c \in BOOLEAN}
CamposFixos ==
    << Input("text", <<>>, <<"sem nome">>, FALSE),
       Oculto(<<"hdnInfraTipoPagina">>, <<"2">>),
       Select(<<"selFormato">>, <<Opcao(<<"A4">>, FALSE), Opcao(<<"A3">>, TRUE)>>),
       Textarea(<<"txaObs">>, <<" ", "obs", " ">>) >>
FormulariosGerar ==
    {a \o b \o c \o d \o CamposFixos :
        a \in CamposFlag, b \in CamposTipo, c \in CamposBotao, d \in CamposCaixa}

InitEnvio ==
    /\ PDFFora
    /\ listagem = ListagemFora
    /\ arvore = ArvoreFora
    /\ historico = [pc |-> "fora"]
    /\ enriquecimento = [pc |-> "fora"]
    /\ \E els \in FormulariosGerar :
          envio = [f |-> [FrameInicial(Processo(1, NumeroBase)) EXCEPT
                              !.pc = "enviar_form", !.tentativas = 1, !.tentativa = 1,
                              !.realizadas = 1],
                   form |-> els, serial |-> None, data |-> None,
                   resp |-> None, sec |-> None, d |-> None]

\* the form is serialized and submitted (lines 174-211)
EnvioSubmeter ==
    /\ envio.f.pc = "enviar_form"
    /\ \E r \in ResultadosForm :
          envio' = [envio EXCEPT
                      !.f = enviar_form(Registrar(@, "enviar_form", r = "ok"), r),
                      !.serial = IF r = "sem_form" THEN None
                                 ELSE Some(serializar_formulario(envio.form)),
                      !.data = IF r \in {"ok", "rede"} THEN Some(dados_gerar(envio.form))
                               ELSE None]
    /\ UNCHANGED <<varsPDF, listagem, arvore, historico, enriquecimento>>

\* the download URL is looked for in the response (lines 213-241)
EnvioResolver ==
    /\ envio.f.pc = "resolver_url"
    /\ \E resp \in Respostas, sec \in Secundarias :
          LET g == resolver_url(Registrar(envio.f, "resolver_url", URLAlcancavel(resp, sec)),
                                resp, sec)
          IN  envio' = [envio EXCEPT
                          !.f = g,
                          !.resp = Some(resp),
                          !.sec = IF g.vezes["iframe_download"] > 0 THEN Some(sec) ELSE None]
    /\ UNCHANGED <<varsPDF, listagem, arvore, historico, enriquecimento>>

\* the file is downloaded (lines 232-236 and baixar_por_url)
EnvioBaixar ==
    /\ envio.f.pc = "baixar"
    /\ \E d \in Downloads :
          envio' = [envio EXCEPT
                      !.f = baixar_por_url(Pedir(Registrar(@, "baixar", DownloadBom(d)), "baixar"), d),
                      !.d = Some(d)]
    /\ UNCHANGED <<varsPDF, listagem, arvore, historico, enriquecimento>>

NextEnvio ==
    \/ EnvioSubmeter
    \/ EnvioResolver
    \/ EnvioBaixar

SpecEnvio == InitEnvio /\ [][NextEnvio]_vars

\* ---- claims about the submission of the generation form ----

\* C23 as stated: when the response holds no download marker but the script
\* assignment document.getElementById('ifrDownload').src = '<url>', the
\* address is fetched and resolution repeated on its content; a diagnostic
\* message block in that content, when it holds no download address either,
\* is the reason of the failure.
C23_FrameSecundario ==
    (envio.resp # None /\ ~envio.resp[1].url /\ envio.resp[1].js = "real") =>
        /\ envio.f.vezes["iframe_download"] = 1
        /\ envio.sec # None
        /\ (envio.sec[1].r = "ok" /\ ~envio.sec[1].url /\ envio.sec[1].msg) =>
              (envio.f.pc = "Failed" /\ envio.f.exc.msg = MsgSEIIframe)

\* C24: the call yields an output path only for a response classified as
\* PDF (by content type or content disposition) with a body that is not
\* empty and not above 100 MiB; a larger body ends the call with the "too
\* large" error, an empty body or a response that is not a PDF ends it with
\* an error and without output path.
C24_SoPDFValido ==
    envio.d # None =>
        LET d == envio.d[1]
            f == envio.f
            pdf == d.ctype_pdf \/ d.disp_pdf
        IN  /\ f.destino # None =>
                  (d.r = "ok" /\ pdf /\ d.tamanho > 0 /\ d.tamanho <= LimiteMiB)
            /\ (d.r = "ok" /\ pdf /\ d.tamanho > LimiteMiB) =>
                  (f.pc = "Failed" /\ f.exc.msg = MsgGrande /\ f.destino = None)
            /\ (d.r = "ok" /\ (~pdf \/ d.tamanho = 0)) =>
                  (f.pc = "Failed" /\ f.exc.tipo = "SEIPDFError" /\ f.destino = None)

\* a file of exactly the accepted maximum, announced by its content
\* disposition only, was downloaded
C24_Witness ==
    /\ envio.d # None
    /\ envio.f.destino # None
    /\ ~envio.d[1].ctype_pdf
    /\ envio.d[1].tamanho = LimiteMiB

\* C25: the data sent are the serialized fields of the form with
\* hdnFlagGerar set to "1" whatever it was, rdoTipo = "T" and btnGerar =
\* "Gerar" added only when the serialized form has no such key, and every
\* other field as serialized.
C25_DadosEnviados ==
    envio.data # None =>
        LET ser == envio.serial[1]
            data == envio.data[1]
        IN  /\ DOMAIN data = DOMAIN ser \cup {NomeFlag, NomeTipo, NomeBotao}
            /\ data[NomeFlag] = <<"1">>
            /\ data[NomeTipo] = IF NomeTipo \in DOMAIN ser THEN ser[NomeTipo] ELSE <<"T">>
            /\ data[NomeBotao] = IF NomeBotao \in DOMAIN ser THEN ser[NomeBotao] ELSE <<"Gerar">>
            /\ \A k \in DOMAIN ser \ {NomeFlag} : data[k] = ser[k]

\* a form whose flag was "0", with a checked document selection other than
\* "T" and its own button, was sent
C25_Witness ==
    /\ envio.data # None
    /\ NomeFlag \in DOMAIN envio.serial[1] /\ envio.serial[1][NomeFlag] = <<"0">>
    /\ NomeTipo \in DOMAIN envio.serial[1] /\ envio.serial[1][NomeTipo] = <<"S">>
    /\ NomeBotao \in DOMAIN envio.serial[1]

\* the named radio buttons and check boxes of the form, by the HTML type
EhRadio(el) == el.tag = "input" /\ el.name # <<>> /\ el.type \in {"radio", "RADIO"}
EhCaixa(el) == el.tag = "input" /\ el.name # <<>> /\ el.type \in {"checkbox", "CHECKBOX"}

\* C26 as stated: a checked radio button or check box gives its value, an
\* unchecked check box gives nothing, every radio group is a key of the
\* result, a group with nothing checked giving the value of its first
\* radio button, and unnamed fields are skipped.
C26_RadiosECaixas ==
    envio.serial # None =>
        LET ser == envio.serial[1]
            els == envio.form
            K == DOMAIN els
        IN  /\ \A k \in K : (EhRadio(els[k]) \/ EhCaixa(els[k])) /\ els[k].checked =>
                  (els[k].name \in DOMAIN ser /\ ser[els[k].name] = els[k].value)
            /\ \A k \in K : (EhCaixa(els[k]) /\ ~els[k].checked) => els[k].name \notin DOMAIN ser
            /\ \A k \in K : EhRadio(els[k]) =>
                  /\ els[k].name \in DOMAIN ser
                  /\ (\A j \in K : EhRadio(els[j]) /\ els[j].name = els[k].name => ~els[j].checked)
                        => ser[els[k].name] =
                             els[Primeiro({j \in K : EhRadio(els[j]) /\ els[j].name = els[k].name})].value
            /\ <<>> \notin DOMAIN ser

\* ---------------------------------------------------------------------
\* history file (storage.py): salvar_historico_processos writes the
\* Records as a JSON object keyed by identifier, carregar_historico_processos
\* reads it back.  A JSON text is kept as the tree of its values, each with
\* its JSON type.
\* ---------------------------------------------------------------------

MaxRegistros == 2

json_string(s) == [t |-> "string", v |-> s]
json_bool(b) == [t |-> IF b THEN "true" ELSE "false", v |-> <<>>]
json_array(itens) == [t |-> "array", v |-> itens]
json_object(campos) == [t |-> "object", v |-> campos]

\* json.load: every JSON value becomes the Python value of its type
RECURSIVE json_load(_)
json_load(j) ==
    IF j.t = "string" THEN j.v
    ELSE IF j.t = "true" THEN TRUE
    ELSE IF j.t = "false" THEN FALSE
    ELSE IF j.t = "null" THEN None
    ELSE [k \in DOMAIN j.v |-> json_load(j.v[k])]

json_nomes(nomes) == json_array([k \in DOMAIN nomes |-> json_string(nomes[k])])

\* asdict(doc), as json.dump writes it
json_documento(doc) ==
    json_object([id_documento |-> json_string(doc.id_documento),
                 eh_sigiloso |-> json_bool(doc.eh_sigiloso),
                 possui_assinaturas |-> json_bool(doc.possui_assinaturas),
                 assinantes |-> json_nomes(doc.assinantes)])

\* processo_para_dict, as json.dump writes it (the fields the history is
\* read for)
processo_para_dict(processo) ==
    json_object([numero_processo |-> json_string(processo.numero_processo),
                 id_procedimento |-> json_string(processo.id_procedimento),
                 documentos |-> json_array([k \in DOMAIN processo.documentos |->
                                               json_documento(processo.documentos[k])]),
                 eh_sigiloso |-> json_bool(processo.eh_sigiloso),
                 assinantes |-> json_nomes(processo.assinantes)])

\* the key taken from the number alone
chave_so_numero(processo) == processo.numero_processo

\* chave = processo.id_procedimento or processo.numero_processo
chave_historico(processo) ==
    IF processo.id_procedimento # <<>> THEN processo.id_procedimento
    ELSE processo.numero_processo

\* the loop of salvar_historico_processos: a Record without key is left
\* out, a later Record replaces an earlier one of the same key
RECURSIVE dados_historico(_, _)
dados_historico(lista, dados) ==
    IF lista = <<>> THEN dados
    ELSE LET chave == chave_historico(Head(lista)) IN
         dados_historico(Tail(lista),
                         IF chave = <<>> THEN dados
                         ELSE atribuir(dados, chave, processo_para_dict(Head(lista))))

\* the Records saved: confidential or not, signed or not, with no, one or
\* two documents, with an identifier or only a number or neither
DocumentosSalvos ==
    << [id_documento |-> <<"DOC-001">>, eh_sigiloso |-> TRUE, possui_assinaturas |-> TRUE,
        assinantes |-> << <<"Fulano da Silva">> >>],
       [id_documento |-> <<"DOC-002">>, eh_sigiloso |-> FALSE, possui_assinaturas |-> FALSE,
        assinantes |-> <<>>] >>
RegistrosSalvos ==
    {[id_procedimento |-> ids[1], numero_processo |-> ids[2], eh_sigiloso |-> sig,
      assinantes |-> ass, documentos |-> SubSeq(DocumentosSalvos, 1, n)] :
        ids \in {<<<<"PROC-001">>, <<"0001/2025">>>>, <<<<"PROC-002">>, <<"0001/2025">>>>,
                 <<<<>>, <<"0002/2025">>>>, <<<<>>, <<>>>>},
        sig \in BOOLEAN,
        ass \in {<<>>, << <<"Fulano da Silva">>, <<"Beltrano">> >>},
        n \in 0..2}

\* the lists passed to salvar_historico_processos: the collection keeps one
\* Record per key
RECURSIVE ListasSalvas(_)
ListasSalvas(n) ==
    IF n = 0 THEN {<<>>}
    ELSE UNION {{Append(l, r) : r \in {x \in RegistrosSalvos :
                                  \A k \in DOMAIN l : chave_historico(l[k]) # chave_historico(x)}} :
                l \in ListasSalvas(n - 1)}

InitHistorico ==
    /\ PDFFora
    /\ listagem = ListagemFora
    /\ arvore = ArvoreFora
    /\ envio = [pc |-> "fora"]
    /\ enriquecimento = [pc |-> "fora"]
    /\ \E n \in 1..MaxRegistros : \E l \in ListasSalvas(n) :
          historico = [pc |-> "inicio", processos |-> l, arquivo |-> None, lido |-> None]

\* salvar_historico_processos
SalvarHistorico ==
    /\ historico.pc = "inicio"
    /\ historico' = [historico EXCEPT
                        !.pc = "salvo",
                        !.arquivo = Some(json_object(dados_historico(historico.processos, <<>>)))]
    /\ UNCHANGED <<varsPDF, listagem, arvore, envio, enriquecimento>>

\* carregar_historico_processos: an absent file gives the empty dictionary
CarregarHistorico ==
    /\ historico.pc \in {"inicio", "salvo"}
    /\ historico' = [historico EXCEPT
                        !.pc = IF historico.pc = "inicio" THEN "nada" ELSE "carregado",
                        !.lido = IF historico.arquivo = None THEN Some(<<>>)
                                 ELSE Some(json_load(historico.arquivo[1]))]
    /\ UNCHANGED <<varsPDF, listagem, arvore, envio, enriquecimento>>

NextHistorico ==
    \/ SalvarHistorico
    \/ CarregarHistorico

SpecHistorico == InitHistorico /\ [][NextHistorico]_vars

MaxEnriquecidos == 2

\* the loop over the node declarations of parse_documentos_do_iframe on a
\* frame that holds declarations only
RECURSIVE declarar_nos(_, _)
declarar_nos(nos, docs) ==
    IF nos = <<>> THEN [erro |-> None, docs |-> docs]
    ELSE LET args == parse_infra_args(Head(nos).args) IN
         IF retida(args) /\ chama_extrair_hash(args)
         THEN [erro |-> Some(ErroNomeLocal), docs |-> docs]
         ELSE declarar_nos(Tail(nos),
                           IF retida(args)
                           THEN atribuir(docs, Head(nos).index, novo_documento(Head(nos).index, args))
                           ELSE docs)

\* what a Record's pages answer: the page does not open, it has no tree
\* frame, the frame does not load, or the frame declares these nodes
FramesDeArvore ==
    { <<>>,
      <<[index |-> 0, args |-> NoSemEndereco(1)]>>,
      <<[index |-> 0, args |-> NoPasta(1)], [index |-> 1, args |-> NoSemEndereco(2)]>>,
      <<[index |-> 0, args |-> NoDocumento(1)]>> }
PaginasDoRegistro ==
    {[abrir |-> "erro", iframe |-> FALSE, carga |-> "erro", nos |-> <<>>],
     [abrir |-> "ok", iframe |-> FALSE, carga |-> "erro", nos |-> <<>>],
     [abrir |-> "ok", iframe |-> TRUE, carga |-> "erro", nos |-> <<>>]}
    \cup {[abrir |-> "ok", iframe |-> TRUE, carga |-> "ok", nos |-> n] : n \in FramesDeArvore}

DocumentoAntigo == novo_documento(0, parse_infra_args(NoSemEndereco(3)))
RegistrosAEnriquecer ==
    UNION {[1..n -> [paginas : PaginasDoRegistro,
                     documentos : {<<>>, <<DocumentoAntigo>>}]] : n \in 0..MaxEnriquecidos}

LimitesDeDocumentos == {None} \cup {Some(n) : n \in 0..MaxEnriquecidos}

InitEnriquecer ==
    /\ PDFFora
    /\ listagem = ListagemFora
    /\ arvore = ArvoreFora
    /\ envio = [pc |-> "fora"]
    /\ historico = [pc |-> "fora"]
    /\ \E rs \in RegistrosAEnriquecer, lim \in LimitesDeDocumentos, coletar \in BOOLEAN :
          enriquecimento =
              [pc |-> "inicio",
               entrada |-> [k \in DOMAIN rs |-> k],
               processos |-> [k \in DOMAIN rs |->
                                 [numero_processo |-> k, paginas |-> rs[k].paginas,
                                  documentos |-> rs[k].documentos,
                                  assinantes |-> << <<"Fulano de Tal">> >>, eh_sigiloso |-> TRUE]],
               coletar_documentos |-> coletar, limite_documentos |-> lim,
               limite |-> None, idx |-> 1, falhos |-> {}, retorno |-> None, erro |-> None]

\* limite = None when the option is below 1
limite_efetivo(limite_documentos) ==
    IF limite_documentos # None /\ limite_documentos[1] < 1 THEN None ELSE limite_documentos

\* processos if limite is None else processos[:limite]
NumeroDeAlvos(e) ==
    IF e.limite = None THEN Len(e.processos) ELSE Min(e.limite[1], Len(e.processos))

\* the entry: nothing to collect returns the list at once
EnriquecerEntrar ==
    /\ enriquecimento.pc = "inicio"
    /\ enriquecimento' =
          IF ~enriquecimento.coletar_documentos \/ enriquecimento.processos = <<>>
          THEN [enriquecimento EXCEPT !.pc = "retornou",
                                      !.retorno = Some(enriquecimento.processos)]
          ELSE [enriquecimento EXCEPT !.pc = "laco",
                                      !.limite = limite_efetivo(enriquecimento.limite_documentos)]
    /\ UNCHANGED <<varsPDF, listagem, arvore, envio, historico>>

\* one turn of the loop over processos_alvo
EnriquecerRegistro ==
    /\ enriquecimento.pc = "laco"
    /\ enriquecimento.idx <= NumeroDeAlvos(enriquecimento)
    /\ LET k == enriquecimento.idx
           p == enriquecimento.processos[k]
           vazio == [enriquecimento EXCEPT !.idx = k + 1, !.falhos = @ \cup {k}]
           r == declarar_nos(p.paginas.nos, <<>>)
       IN  enriquecimento' =
             IF p.paginas.abrir = "erro"
             THEN [vazio EXCEPT !.processos[k].documentos = <<>>]
             ELSE IF ~p.paginas.iframe \/ p.paginas.carga = "erro"
             THEN [vazio EXCEPT !.processos[k].documentos = <<>>,
                                !.processos[k].assinantes = <<>>,
                                !.processos[k].eh_sigiloso = FALSE]
             ELSE IF r.erro # None
             THEN [enriquecimento EXCEPT !.pc = "propagou", !.erro = r.erro,
                                         !.processos[k].assinantes = <<>>,
                                         !.processos[k].eh_sigiloso = FALSE]
             ELSE [enriquecimento EXCEPT !.idx = k + 1,
                                         !.processos[k].documentos = ordenados(r.docs),
                                         !.processos[k].assinantes = <<>>,
                                         !.processos[k].eh_sigiloso = FALSE]
    /\ UNCHANGED <<varsPDF, listagem, arvore, envio, historico>>

\* after the loop: the Records beyond the limit are emptied and the list
\* is returned
EnriquecerRetornar ==
    /\ enriquecimento.pc = "laco"
    /\ enriquecimento.idx > NumeroDeAlvos(enriquecimento)
    /\ LET e == enriquecimento
           ps == [k \in DOMAIN e.processos |->
                     IF e.limite # None /\ k > e.limite[1]
                     THEN [e.processos[k] EXCEPT !.documentos = <<>>]
                     ELSE e.processos[k]]
       IN  enriquecimento' = [e EXCEPT !.pc = "retornou", !.processos = ps, !.retorno = Some(ps)]
    /\ UNCHANGED <<varsPDF, listagem, arvore, envio, historico>>

NextEnriquecer ==
    \/ EnriquecerEntrar
    \/ EnriquecerRegistro
    \/ EnriquecerRetornar

SpecEnriquecer == InitEnriquecer /\ [][NextEnriquecer]_vars

\* C28: no failure of one Record leaves enriquecer_processos; when it ends
\* it has returned the Records it was given in their order, the Records
\* whose page or frame failed and the Records beyond the limit with an
\* empty document list.
C28_FalhaNaoPropaga ==
    LET e == enriquecimento IN
    /\ e.pc # "propagou"
    /\ e.pc = "retornou" =>
          /\ [k \in DOMAIN e.retorno[1] |-> e.retorno[1][k].numero_processo] = e.entrada
          /\ \A k \in e.falhos : e.retorno[1][k].documentos = <<>>
          /\ e.limite # None =>
                \A k \in DOMAIN e.retorno[1] : k > e.limite[1] => e.retorno[1][k].documentos = <<>>

\* ---------------------------------------------------------------------
\* the Result and the session of baixar_pdf_processo
\* ---------------------------------------------------------------------

\* C29: every Result returned is a success exactly when it has a path and
\* no error text, a failure has no path, its attempt count is the number
\* of attempts made, which is between 1 and the configured count when that
\* is at least 1, and only the last attempt can be the successful one.
C29_ResultadoCoerente ==
    \A i \in DOMAIN frames :
        frames[i].pc = "fim" =>
            LET f == frames[i]
                r == f.resultado[1]
            IN  /\ r.sucesso <=> (r.caminho # None /\ r.erro = None)
                /\ ~r.sucesso => r.caminho = None
                /\ r.tentativas = Len(f.historico)
                /\ f.tentativas >= 1 => (1 <= r.tentativas /\ r.tentativas <= f.tentativas)
                /\ \A k \in 1..(Len(f.historico) - 1) : f.historico[k] # "ok"
                /\ r.sucesso <=> (f.historico # <<>> /\ f.historico[Len(f.historico)] = "ok")

\* a Result of success on the second of three attempts
C29_Witness ==
    /\ frames[1].pc = "fim"
    /\ frames[1].tentativas = MaxTentativas
    /\ frames[1].resultado[1].sucesso
    /\ frames[1].resultado[1].tentativas = 2
    /\ frames[1].historico[1] # "ok"

\* the sessions the calls created
Criadas == {s \in DOMAIN sessoes : sessoes[s].criador # 0}

\* C30: a session created by a call is closed once that call has ended,
\* whichever way it ended; the caller's session is never closed, and in a
\* sequential batch every call runs on it, open, and creates none.
C30_FechaSoAPropria ==
    /\ \A s \in Criadas :
          frames[sessoes[s].criador].pc \in {"fim", "propagou", "retornado"} => ~sessoes[s].aberta
    /\ \A s \in DOMAIN sessoes : sessoes[s].criador = 0 => sessoes[s].aberta
    /\ \A i \in DOMAIN frames :
          EmCurso(frames[i]) =>
              /\ frames[i].sessao_propria <=> (frames[i].sessao \in Criadas)
              /\ (chamada = "lote" /\ ~opts.paralelo) =>
                    /\ Some(frames[i].sessao) = session
                    /\ sessoes[frames[i].sessao].aberta

\* a sequential batch has started its second record on the caller's
\* session after the first record's call ended
C30_Witness ==
    /\ ~opts.paralelo
    /\ Len(frames) >= 2
    /\ frames[1].pc = "retornado"
    /\ frames[2].passos # <<>>
    /\ Some(frames[2].sessao) = session

====
